---- MODULE Spec2Model ----
(***************************************************************************)
(* Tunnel instance registry of FicsitHosting's provisioning system.        *)
(*                                                                         *)
(* Two managers are modelled, each translated from its source file:        *)
(*   RatholeInstanceManager  rathole-server/rathole_instance_manager.py    *)
(*   FrpManager              frp-server/frp_instance_manager.py            *)
(* A deployment runs one of them; `manager` says which one a behaviour is  *)
(* about.  Request threads call create_instance / remove_instance          *)
(* concurrently; every statement group of a call is one step of its        *)
(* thread, so the states between the steps are the states a concurrent     *)
(* observer (another thread, the operating system) can see.                *)
(*                                                                         *)
(* Environment: a relay process may exit at any time; the file-system      *)
(* steps (config write, pid-file write, directory removal) and the spawn   *)
(* may raise, at most MaxFaults times in a behaviour.  Operations of a     *)
(* connected persistence store succeed, and so does the read of the log    *)
(* file that the spawn has just opened.                                    *)
(***************************************************************************)
EXTENDS Integers, Sequences, FiniteSets, TLC

\* ------------------------------------------------------------------ bounds
\* Number of request threads.
NThreads == 2
\* Width of the control-port range [RATHOLE_PORT_START, RATHOLE_PORT_END].
ControlPorts == 2
\* Width of the tunnel-port range [GAME_PORT_START, GAME_PORT_END].
TunnelPorts == 2
\* Exceptions the environment raises in one behaviour (file system, spawn).
MaxFaults == 1
\* Pids the operating system hands out (a pid is reused once nothing names it).
MaxPid == 2
\* Pids the operating system of the host agent hands out.
MaxClientPid == 3

\* --------------------------------------------------------------- constants
RATHOLE_PORT_START == 20000
RATHOLE_PORT_END == RATHOLE_PORT_START + ControlPorts - 1
GAME_PORT_START == 40000
GAME_PORT_END == GAME_PORT_START + TunnelPorts - 1
FRPS_PORT_RANGE_START == 7100
FRPS_PORT_RANGE_END == FRPS_PORT_RANGE_START + ControlPorts

\* Python's None (and every falsy port or pid).
None == 0
NoThread == 0

Threads == 1..NThreads
ServerIds == {"s1", "s2"}
\* Caller-supplied local ports of the game server.  FrpManager indexes them, so
\* its callers get two to collide on; RatholeInstanceManager only records them.
GamePorts(m) == IF m = "frp" THEN {7777, 7778, 7779} ELSE {7777}
QueryPorts == {None, 15777}
\* The authenticated identity each request thread acts for.
Caller(t) == "u1"
\* The owner_username the caller of thread t passes with its owner_id.
CallerName(t) == "user1"
Pids == 1..MaxPid

VARIABLES
    manager,                 \* "rathole" | "frp": the manager this behaviour runs
    redis,                   \* self.redis is not None
    instances,               \* self.instances: server_id -> instance_info
    port_allocations,        \* self.port_allocations: port -> server_id
    frps_ports,              \* FrpManager.frps_ports: port -> server_id
    frps_processes,          \* FrpManager.frps_processes: server_id -> process
    lock,                    \* self.lock: the thread holding it, or NoThread
    redis_port_allocations,  \* hash rathole:port_allocations / frp:port_allocations
    redis_frps_ports,        \* hash frp:frps_ports
    redis_instances,         \* keys rathole:instance:<id> / frp:instance:<id>
    config_dirs,             \* the instance directories that exist under BASE_DATA_DIR
    faults,                  \* the exceptions the environment has raised so far
    procs,                   \* the live relay processes: [pid, server_id, ports, token]
    pc,                      \* each thread's position
    call,                    \* each thread's call: [op, server_id, game_port, query_port, owner_id]
    loc,                     \* each thread's locals
    result,                  \* each thread's return value (or the exception it raises)
    pre,                     \* history: the registry as it was when the lock was last acquired
    lastCall,                \* history: the id the last finished call removed, if it removed one
    liveCreates,             \* history: per id, successful creates since the id last left the instance map
    LEGACY_AUTH_ENABLED,     \* the configured flag of the legacy shared-secret path
    request,                 \* per request thread: the HTTP request it is serving
    g_user,                  \* per request thread: flask's g.user
    response,                \* per request thread: the HTTP response it has produced
    shutdown,                \* the shutdown_all_instances call of thread 1: its loop and lists
    frp_clients,             \* host agent: frp_clients, server_id -> process info
    frpc_procs,              \* host agent: the live client processes, [pid, server_id]
    client_files,            \* host agent: the ids whose /data/frp/<id>/client.toml exists
    tunnels,                 \* the ids the tunnel manager the agent talks to has an instance for
    agent                    \* host agent: per thread, the call it is in

\* The state of the HTTP layer.
\* The state of the host agent and of the manager it talks to.
agentVars == <<frp_clients, frpc_procs, client_files, tunnels, agent>>

apiVars == <<LEGACY_AUTH_ENABLED, request, g_user, response, shutdown, agentVars>>

vars == <<apiVars, manager, redis, instances, port_allocations, frps_ports, frps_processes,
          lock, redis_port_allocations, redis_frps_ports, redis_instances,
          config_dirs, faults, procs, pc, call, loc, result, pre, lastCall, liveCreates>>

registry == <<instances, port_allocations, frps_ports, frps_processes,
              redis_port_allocations, redis_frps_ports, redis_instances>>

\* ----------------------------------------------------------------- helpers
EmptyMap == [x \in {} |-> None]

Put(m, k, v) == [x \in (DOMAIN m) \cup {k} |-> IF x = k THEN v ELSE m[x]]

Del(m, k) == [x \in (DOMAIN m) \ {k} |-> m[x]]

Min(S) == CHOOSE x \in S : \A y \in S : x <= y

\* hset / hdel on a hash of the store: nothing happens without a store.
HSet(h, k, v) == IF redis THEN Put(h, k, v) ELSE h

\* An hdel that leaves the field in the hash.
HDelForgets(h, k) == h

HDel(h, k) == IF redis THEN Del(h, k) ELSE h

\* The configured shared secret of the control API's legacy path.
API_TOKEN == "api-token"

\* No secret generated yet.
NoSecret == ""

\* The values secrets.token_urlsafe(16) returns.
Secrets == {"secret1", "secret2", "secret3", "secret4"}

NoCall == [op |-> "none", server_id |-> "", game_port |-> None,
           query_port |-> None, owner_id |-> ""]

NoLocals == [rathole_port |-> None, tunnel_game_port |-> None,
             tunnel_query_port |-> None, frps_port |-> None, pid |-> None,
             frps_token |-> NoSecret,
             inst |-> <<>>, released |-> <<>>,
             forced |-> FALSE]    \* history: the stop went as far as the force-kill

NoResult == [status |-> "none", message |-> "", log |-> FALSE]

Error(msg) == [status |-> "error", message |-> msg, log |-> FALSE]

Success == [status |-> "success", message |-> "", log |-> FALSE]

\* An exception that leaves the method (FrpManager catches nothing).
Raised(msg) == [status |-> "raised", message |-> msg, log |-> FALSE]

Snapshot == [instances |-> instances, port_allocations |-> port_allocations,
             frps_ports |-> frps_ports, frps_processes |-> frps_processes,
             redis_port_allocations |-> redis_port_allocations,
             redis_frps_ports |-> redis_frps_ports,
             redis_instances |-> redis_instances]

NoSnapshot == [instances |-> EmptyMap, port_allocations |-> EmptyMap,
               frps_ports |-> EmptyMap, frps_processes |-> EmptyMap,
               redis_port_allocations |-> EmptyMap,
               redis_frps_ports |-> EmptyMap,
               redis_instances |-> EmptyMap]

NoLastCall == ""

\* No shutdown_all_instances call has been made.  phase is "none", "loop" (the
\* for loop over the keys listed at the start) or "returned"; todo are the
\* listed keys the loop has not reached; start is that list (history).
NoShutdown == [phase |-> "none", start |-> {}, todo |-> {}, removed |-> {},
               remaining |-> {}]

LivePids == {p.pid : p \in procs}

\* The pids something still names: a live process, an instance record, a handle.
NamedPids == LivePids
             \cup (IF manager = "rathole"
                   THEN {instances[s].pid : s \in DOMAIN instances}
                   ELSE {})
             \cup {frps_processes[s] : s \in DOMAIN frps_processes}
             \cup {loc[t].pid : t \in Threads}

\* The pid the operating system gives the next process.
FreshPids == Pids \ NamedPids

\* The secrets something still holds: a relay process, a record, a call.
HeldSecrets == {p.token : p \in procs}
               \cup (IF manager = "frp"
                     THEN {instances[s].frps_token : s \in DOMAIN instances}
                     ELSE {})
               \cup {loc[t].frps_token : t \in Threads}

\* secrets.token_urlsafe(16): 128 random bits, a value nothing holds.  Secrets
\* are interchangeable, so the model takes one representative of the fresh ones.
token_urlsafe == CHOOSE k \in Secrets : k \notin HeldSecrets

\* ------------------------------------------------------------- HTTP layer
\* An absent header; a present Authorization header is <<scheme, token>>.
NoHeader == <<>>

\* An absent (or empty) X-API-Token header or JSON body `token` field.
NoToken == ""

NoRequest == [authorization |-> NoHeader, x_api_token |-> NoToken,
              body_token |-> NoToken, op |-> "none", server_id |-> ""]

\* g has no `user` attribute.
NoUser == [id |-> "", username |-> "", roles |-> {}, is_legacy |-> FALSE]

NoResponse == [code |-> 0, error |-> "", instance |-> <<>>, instances |-> {},
               config |-> <<>>]

\* A host-agent thread outside every call.  tunnel is what
\* create_tunnel_instance returned to the call, process the Popen handle (or
\* the tracked process a stop looks at), returned the call's return value.
NoAgentCall == [pc |-> "idle", op |-> "none", server_id |-> "", tunnel |-> <<>>,
                process |-> None, returned |-> "none"]

\* The host agent has started nothing.
AgentIdle ==
    /\ frp_clients = EmptyMap
    /\ frpc_procs = {}
    /\ client_files = {}
    /\ tunnels = {}
    /\ agent = [t \in Threads |-> NoAgentCall]

\* ------------------------------------------------------------------- Init
Init ==
    /\ LEGACY_AUTH_ENABLED = TRUE
    /\ request = [t \in Threads |-> NoRequest]
    /\ g_user = [t \in Threads |-> NoUser]
    /\ response = [t \in Threads |-> NoResponse]
    /\ shutdown = NoShutdown
    /\ AgentIdle
    /\ manager \in {"rathole", "frp"}
    /\ redis \in BOOLEAN
    /\ instances = EmptyMap
    /\ port_allocations = EmptyMap
    /\ frps_ports = EmptyMap
    /\ frps_processes = EmptyMap
    /\ lock = NoThread
    /\ redis_port_allocations = EmptyMap
    /\ redis_frps_ports = EmptyMap
    /\ redis_instances = EmptyMap
    /\ config_dirs = {}
    /\ faults = 0
    /\ procs = {}
    /\ pc = [t \in Threads |-> "idle"]
    /\ call = [t \in Threads |-> NoCall]
    /\ loc = [t \in Threads |-> NoLocals]
    /\ result = [t \in Threads |-> NoResult]
    /\ pre = NoSnapshot
    /\ lastCall = NoLastCall
    /\ liveCreates = [s \in ServerIds |-> 0]

\* ---------------------------------------------------------- calls and lock
\* A request thread calls create_instance or remove_instance and waits for the
\* lock.  Nothing reads the call's arguments before the lock is held, so the
\* model draws them when it is acquired.
Invoke(t) ==
    /\ pc[t] = "idle"
    /\ pc' = [pc EXCEPT ![t] = "lock"]
    /\ UNCHANGED <<faults, apiVars, manager, redis, registry, lock, config_dirs, procs, call,
                   loc, result, pre, lastCall, liveCreates>>

\* A create_instance that goes on without waiting for the lock.
AcquireCreateUnlocked(t) ==
    /\ pc[t] = "lock"
    /\ lock' = t
    /\ \E s \in ServerIds, g \in GamePorts(manager), q \in QueryPorts :
         call' = [call EXCEPT ![t] =
                    [op |-> "create", server_id |-> s, game_port |-> g,
                     query_port |-> q, owner_id |-> Caller(t)]]
    /\ pre' = Snapshot
    /\ pc' = [pc EXCEPT ![t] = IF manager = "rathole" THEN "c_check" ELSE "fc_check"]
    /\ UNCHANGED <<faults, apiVars, manager, redis, registry, config_dirs, procs, loc,
                   result, lastCall, liveCreates>>

\* `with self.lock:` entered by create_instance(s, g, q, owner_id).
AcquireCreate(t) ==
    /\ pc[t] = "lock"
    /\ lock = NoThread
    /\ lock' = t
    /\ \E s \in ServerIds, g \in GamePorts(manager), q \in QueryPorts :
         call' = [call EXCEPT ![t] =
                    [op |-> "create", server_id |-> s, game_port |-> g,
                     query_port |-> q, owner_id |-> Caller(t)]]
    /\ pre' = Snapshot
    /\ pc' = [pc EXCEPT ![t] = IF manager = "rathole" THEN "c_check" ELSE "fc_check"]
    /\ UNCHANGED <<faults, apiVars, manager, redis, registry, config_dirs, procs, loc,
                   result, lastCall, liveCreates>>

\* `with self.lock:` entered by remove_instance(s).
AcquireRemove(t) ==
    /\ pc[t] = "lock"
    /\ lock = NoThread
    /\ lock' = t
    /\ \E s \in ServerIds :
         call' = [call EXCEPT ![t] = [NoCall EXCEPT !.op = "remove", !.server_id = s]]
    /\ pre' = Snapshot
    /\ pc' = [pc EXCEPT ![t] = IF manager = "rathole" THEN "r_check" ELSE "fr_pop"]
    /\ UNCHANGED <<faults, apiVars, manager, redis, registry, config_dirs, procs, loc,
                   result, lastCall, liveCreates>>

\* A block whose lock stays held when an exception leaves it.
ReleaseUnlessRaised(t) ==
    /\ pc[t] = "ret"
    /\ lock = t
    /\ lock' = IF result[t].status = "raised" THEN lock ELSE NoThread
    /\ lastCall' = IF call[t].op = "remove" /\ result[t].status = "success"
                   THEN call[t].server_id ELSE NoLastCall
    /\ liveCreates' =
         IF call[t].op = "create" /\ result[t].status = "success"
         THEN [liveCreates EXCEPT ![call[t].server_id] = @ + 1]
         ELSE IF call[t].op = "remove" /\ call[t].server_id \notin DOMAIN instances
         THEN [liveCreates EXCEPT ![call[t].server_id] = 0]
         ELSE liveCreates
    /\ pre' = NoSnapshot
    /\ pc' = [pc EXCEPT ![t] = "idle"]
    /\ call' = [call EXCEPT ![t] = NoCall]
    /\ loc' = [loc EXCEPT ![t] = NoLocals]
    /\ result' = [result EXCEPT ![t] = NoResult]
    /\ UNCHANGED <<faults, apiVars, manager, redis, registry, config_dirs, procs>>

\* The `with` block is left (by return or by an exception) and the call ends.
Release(t) ==
    /\ pc[t] = "ret"
    /\ lock = t
    /\ lock' = NoThread
    /\ lastCall' = IF call[t].op = "remove" /\ result[t].status = "success"
                   THEN call[t].server_id ELSE NoLastCall
    /\ liveCreates' =
         IF call[t].op = "create" /\ result[t].status = "success"
         THEN [liveCreates EXCEPT ![call[t].server_id] = @ + 1]
         ELSE IF call[t].op = "remove" /\ call[t].server_id \notin DOMAIN instances
         THEN [liveCreates EXCEPT ![call[t].server_id] = 0]
         ELSE liveCreates
    /\ pre' = NoSnapshot
    /\ pc' = [pc EXCEPT ![t] = "idle"]
    /\ call' = [call EXCEPT ![t] = NoCall]
    /\ loc' = [loc EXCEPT ![t] = NoLocals]
    /\ result' = [result EXCEPT ![t] = NoResult]
    /\ UNCHANGED <<faults, apiVars, manager, redis, registry, config_dirs, procs>>

\* A relay process exits on its own.
ProcessExits ==
    /\ \E p \in procs : procs' = procs \ {p}
    /\ UNCHANGED <<faults, apiVars, manager, redis, registry, lock, config_dirs, pc, call, loc,
                   result, pre, lastCall, liveCreates>>

\* ------------------------------------------- RatholeInstanceManager: create
\* A scan of [lo, hi] that runs from the top of the range.
allocate_port_from_top(lo, hi) ==
    LET free == {p \in lo..hi :
                   /\ p \notin DOMAIN port_allocations
                   /\ (redis => p \notin DOMAIN redis_port_allocations)}
    IN IF free = {} THEN None ELSE CHOOSE p \in free : \A q \in free : q <= p

\* The first port of [lo, hi] that is in neither the index nor (with a store)
\* the persisted hash; None when there is none.
allocate_port(lo, hi) ==
    LET free == {p \in lo..hi :
                   /\ p \notin DOMAIN port_allocations
                   /\ (redis => p \notin DOMAIN redis_port_allocations)}
    IN IF free = {} THEN None ELSE Min(free)

allocate_rathole_port == allocate_port(RATHOLE_PORT_START, RATHOLE_PORT_END)

allocate_game_port == allocate_port(GAME_PORT_START, GAME_PORT_END)

\* The default_token _generate_server_config writes into [server].
ConfigToken == API_TOKEN

\* The ports a relay server config binds.
ConfigPorts(rathole_port, tunnel_game_port, tunnel_query_port) ==
    {rathole_port, tunnel_game_port} \cup
    (IF tunnel_query_port # None THEN {tunnel_query_port} ELSE {})

\* A create that does not look for the id in the instance map.
CreateCheckSkipped(t) ==
    /\ pc[t] = "c_check"
    /\ pc' = [pc EXCEPT ![t] = "c_control"]
    /\ UNCHANGED <<faults, apiVars, manager, redis, registry, lock, config_dirs, procs, call,
                   loc, result, pre, lastCall, liveCreates>>

\* `if server_id in self.instances: return error`.
CreateCheck(t) ==
    /\ pc[t] = "c_check"
    /\ IF call[t].server_id \in DOMAIN instances
       THEN /\ result' = [result EXCEPT ![t] = Error("already exists")]
            /\ pc' = [pc EXCEPT ![t] = "ret"]
       ELSE /\ pc' = [pc EXCEPT ![t] = "c_control"]
            /\ UNCHANGED result
    /\ UNCHANGED <<faults, apiVars, manager, redis, registry, lock, config_dirs, procs, call, loc,
                   pre, lastCall, liveCreates>>

\* Allocate the control port and mark it at once.
CreateAllocateControl(t) ==
    /\ pc[t] = "c_control"
    /\ LET port == allocate_rathole_port IN
       IF port = None
       THEN /\ result' = [result EXCEPT ![t] = Error("No available Rathole control ports")]
            /\ pc' = [pc EXCEPT ![t] = "ret"]
            /\ UNCHANGED <<port_allocations, redis_port_allocations, loc>>
       ELSE /\ port_allocations' = Put(port_allocations, port, call[t].server_id)
            /\ redis_port_allocations' =
                 HSet(redis_port_allocations, port, call[t].server_id)
            /\ loc' = [loc EXCEPT ![t].rathole_port = port]
            /\ pc' = [pc EXCEPT ![t] = "c_game"]
            /\ UNCHANGED result
    /\ UNCHANGED <<faults, apiVars, manager, redis, instances, frps_ports, frps_processes,
                   redis_frps_ports, redis_instances, lock, config_dirs, procs,
                   call, pre, lastCall, liveCreates>>

\* Allocate the one tunnel port of the game's TCP and UDP traffic.
CreateAllocateGame(t) ==
    /\ pc[t] = "c_game"
    /\ LET port == allocate_game_port IN
       IF port = None
       THEN /\ result' = [result EXCEPT ![t] = Error("No available tunnel game ports")]
            /\ pc' = [pc EXCEPT ![t] = "ret"]
            /\ UNCHANGED <<port_allocations, redis_port_allocations, loc>>
       ELSE /\ port_allocations' = Put(port_allocations, port, call[t].server_id)
            /\ redis_port_allocations' =
                 HSet(redis_port_allocations, port, call[t].server_id)
            /\ loc' = [loc EXCEPT ![t].tunnel_game_port = port]
            /\ pc' = [pc EXCEPT ![t] = "c_query"]
            /\ UNCHANGED result
    /\ UNCHANGED <<faults, apiVars, manager, redis, instances, frps_ports, frps_processes,
                   redis_frps_ports, redis_instances, lock, config_dirs, procs,
                   call, pre, lastCall, liveCreates>>

\* Allocate the tunnel query port when a query port was given.
CreateAllocateQuery(t) ==
    /\ pc[t] = "c_query"
    /\ IF call[t].query_port = None
       THEN /\ pc' = [pc EXCEPT ![t] = "c_config"]
            /\ UNCHANGED <<port_allocations, redis_port_allocations, loc, result>>
       ELSE LET port == allocate_game_port IN
            IF port = None
            THEN /\ result' = [result EXCEPT ![t] = Error("No available tunnel query ports")]
                 /\ pc' = [pc EXCEPT ![t] = "ret"]
                 /\ UNCHANGED <<port_allocations, redis_port_allocations, loc>>
            ELSE /\ port_allocations' = Put(port_allocations, port, call[t].server_id)
                 /\ redis_port_allocations' =
                      HSet(redis_port_allocations, port, call[t].server_id)
                 /\ loc' = [loc EXCEPT ![t].tunnel_query_port = port]
                 /\ pc' = [pc EXCEPT ![t] = "c_config"]
                 /\ UNCHANGED result
    /\ UNCHANGED <<faults, apiVars, manager, redis, instances, frps_ports, frps_processes,
                   redis_frps_ports, redis_instances, lock, config_dirs, procs,
                   call, pre, lastCall, liveCreates>>

\* mkdir of the instance directory and write of rathole-server.toml; either may
\* raise, and the method's `except Exception` turns that into an error result.
CreateWriteConfig(t) ==
    /\ pc[t] = "c_config"
    /\ \/ /\ config_dirs' = config_dirs \cup {call[t].server_id}
          /\ pc' = [pc EXCEPT ![t] = "c_spawn"]
          /\ UNCHANGED <<result, faults>>
       \/ /\ faults < MaxFaults
          /\ faults' = faults + 1
          /\ \E made \in BOOLEAN :
               config_dirs' = IF made THEN config_dirs \cup {call[t].server_id}
                              ELSE config_dirs
          /\ result' = [result EXCEPT ![t] = Error("config write raised")]
          /\ pc' = [pc EXCEPT ![t] = "ret"]
    /\ UNCHANGED <<apiVars, manager, redis, registry, lock, procs, call, loc, pre,
                   lastCall, liveCreates>>

\* subprocess.Popen of the relay binary: a new process, or an exception.
CreateSpawn(t) ==
    /\ pc[t] = "c_spawn"
    /\ \/ /\ FreshPids # {}
          /\ LET pid == Min(FreshPids) IN
             /\ procs' = procs \cup
                  {[pid |-> pid, server_id |-> call[t].server_id,
                    ports |-> ConfigPorts(loc[t].rathole_port, loc[t].tunnel_game_port,
                                          loc[t].tunnel_query_port),
                    token |-> ConfigToken]}
             /\ loc' = [loc EXCEPT ![t].pid = pid]
          /\ pc' = [pc EXCEPT ![t] = "c_probe"]
          /\ UNCHANGED <<result, faults>>
       \/ /\ faults < MaxFaults
          /\ faults' = faults + 1
          /\ result' = [result EXCEPT ![t] = Error("spawn raised")]
          /\ pc' = [pc EXCEPT ![t] = "ret"]
          /\ UNCHANGED <<procs, loc>>
    /\ UNCHANGED <<apiVars, manager, redis, registry, lock, config_dirs, call, pre,
                   lastCall, liveCreates>>

\* The ports of `ports` (a sequence) deleted from the index in order, each only
\* `if port and port in self.port_allocations`.
RECURSIVE ReleaseFrom(_, _)
ReleaseFrom(index, ports) ==
    IF ports = <<>> THEN index
    ELSE LET port == Head(ports) IN
         ReleaseFrom(IF port # None /\ port \in DOMAIN index
                     THEN Del(index, port) ELSE index,
                     Tail(ports))

\* The ports that loop deletes, in order.
RECURSIVE ReleasedBy(_, _)
ReleasedBy(index, ports) ==
    IF ports = <<>> THEN <<>>
    ELSE LET port == Head(ports) IN
         IF port # None /\ port \in DOMAIN index
         THEN <<port>> \o ReleasedBy(Del(index, port), Tail(ports))
         ELSE ReleasedBy(index, Tail(ports))

\* The persisted hash after the hdel of each port the loop deleted.
RECURSIVE HDelAll(_, _)
HDelAll(h, ports) ==
    IF ports = <<>> THEN h ELSE HDelAll(HDel(h, Head(ports)), Tail(ports))

\* A cleanup that forgets the query port.
CleanupPortsWithoutQuery(t) ==
    <<loc[t].rathole_port, loc[t].tunnel_game_port>>

\* The ports the cleanup after an immediate exit walks.
CleanupPorts(t) ==
    <<loc[t].rathole_port, loc[t].tunnel_game_port, loc[t].tunnel_query_port>>

\* After sleep(1): `if process.poll() is not None` the log is read, the call's
\* ports are released and the error carries the log.
CreateProbe(t) ==
    /\ pc[t] = "c_probe"
    /\ IF loc[t].pid \notin LivePids
       THEN LET ports == CleanupPorts(t) IN
            /\ port_allocations' = ReleaseFrom(port_allocations, ports)
            /\ redis_port_allocations' =
                 HDelAll(redis_port_allocations, ReleasedBy(port_allocations, ports))
            /\ result' = [result EXCEPT ![t] =
                            [status |-> "error", message |-> "exited immediately",
                             log |-> TRUE]]
            /\ pc' = [pc EXCEPT ![t] = "ret"]
       ELSE /\ pc' = [pc EXCEPT ![t] = "c_pid"]
            /\ UNCHANGED <<port_allocations, redis_port_allocations, result>>
    /\ UNCHANGED <<faults, apiVars, manager, redis, instances, frps_ports, frps_processes,
                   redis_frps_ports, redis_instances, lock, config_dirs, procs,
                   call, loc, pre, lastCall, liveCreates>>

\* The pid file is written (or the write raises).
CreateSavePid(t) ==
    /\ pc[t] = "c_pid"
    /\ \/ /\ pc' = [pc EXCEPT ![t] = "c_track"]
          /\ UNCHANGED <<result, faults>>
       \/ /\ faults < MaxFaults
          /\ faults' = faults + 1
          /\ result' = [result EXCEPT ![t] = Error("pid file raised")]
          /\ pc' = [pc EXCEPT ![t] = "ret"]
    /\ UNCHANGED <<apiVars, manager, redis, registry, lock, config_dirs, procs, call, loc,
                   pre, lastCall, liveCreates>>

\* The instance_info create_instance builds.
InstanceInfo(server_id, game_port, query_port, tunnel_game_port, tunnel_query_port, rathole_port, owner_id, owner_username, pid) ==
    [server_id |-> server_id,
     game_port |-> game_port,
     query_port |-> query_port,
     tunnel_game_tcp_port |-> tunnel_game_port,
     tunnel_game_udp_port |-> tunnel_game_port,
     tunnel_query_port |-> tunnel_query_port,
     rathole_port |-> rathole_port,
     owner_id |-> owner_id,
     owner_username |-> owner_username,
     is_running |-> TRUE,
     pid |-> pid]

\* The record as it would be before the relay process is spawned.
instance_info_unspawned(t) ==
    InstanceInfo(call[t].server_id, call[t].game_port, call[t].query_port,
                 loc[t].tunnel_game_port, loc[t].tunnel_query_port,
                 loc[t].rathole_port, call[t].owner_id, CallerName(t), None)

instance_info(t) ==
    InstanceInfo(call[t].server_id, call[t].game_port, call[t].query_port,
                 loc[t].tunnel_game_port, loc[t].tunnel_query_port,
                 loc[t].rathole_port, call[t].owner_id, CallerName(t), loc[t].pid)

\* The instance is tracked and persisted; the call returns success.
CreateTrack(t) ==
    /\ pc[t] = "c_track"
    /\ instances' = Put(instances, call[t].server_id, instance_info(t))
    /\ redis_instances' = HSet(redis_instances, call[t].server_id, instance_info(t))
    /\ result' = [result EXCEPT ![t] = Success]
    /\ pc' = [pc EXCEPT ![t] = "ret"]
    /\ UNCHANGED <<faults, apiVars, manager, redis, port_allocations, frps_ports, frps_processes,
                   redis_port_allocations, redis_frps_ports, lock, config_dirs,
                   procs, call, loc, pre, lastCall, liveCreates>>

RatholeCreate(t) ==
    \/ CreateCheck(t)
    \/ CreateAllocateControl(t)
    \/ CreateAllocateGame(t)
    \/ CreateAllocateQuery(t)
    \/ CreateWriteConfig(t)
    \/ CreateSpawn(t)
    \/ CreateProbe(t)
    \/ CreateSavePid(t)
    \/ CreateTrack(t)

\* ------------------------------------------- RatholeInstanceManager: remove
\* `if server_id not in self.instances: return error`.
RemoveCheck(t) ==
    /\ pc[t] = "r_check"
    /\ IF call[t].server_id \notin DOMAIN instances
       THEN /\ result' = [result EXCEPT ![t] = Error("not found")]
            /\ pc' = [pc EXCEPT ![t] = "ret"]
       ELSE /\ pc' = [pc EXCEPT ![t] = "r_term"]
            /\ UNCHANGED result
    /\ UNCHANGED <<faults, apiVars, manager, redis, registry, lock, config_dirs, procs, call, loc,
                   pre, lastCall, liveCreates>>

\* `if is_running and pid:` SIGTERM to the process group; the process may exit
\* on it during the sleep(2).  getpgid of a dead pid raises OSError, which skips
\* the block.
RemoveTerminate(t) ==
    /\ pc[t] = "r_term"
    /\ LET info == instances[call[t].server_id] IN
       IF info.is_running /\ info.pid # None /\ info.pid \in LivePids
       THEN /\ \E exits \in BOOLEAN :
                 procs' = IF exits THEN {p \in procs : p.pid # info.pid} ELSE procs
            /\ pc' = [pc EXCEPT ![t] = "r_kill"]
       ELSE /\ pc' = [pc EXCEPT ![t] = "r_ports"]
            /\ UNCHANGED procs
    /\ UNCHANGED <<faults, apiVars, manager, redis, registry, lock, config_dirs, call, loc, result,
                   pre, lastCall, liveCreates>>

\* A stop that ends after the graceful signal.
RemoveKillSkipped(t) ==
    /\ pc[t] = "r_kill"
    /\ loc' = [loc EXCEPT ![t].forced =
                 instances[call[t].server_id].pid \in LivePids]
    /\ pc' = [pc EXCEPT ![t] = "r_ports"]
    /\ UNCHANGED <<faults, apiVars, manager, redis, registry, lock, config_dirs, procs, call,
                   result, pre, lastCall, liveCreates>>

\* SIGKILL to the process group if it is still there.
RemoveKill(t) ==
    /\ pc[t] = "r_kill"
    /\ procs' = {p \in procs : p.pid # instances[call[t].server_id].pid}
    /\ loc' = [loc EXCEPT ![t].forced =
                 instances[call[t].server_id].pid \in LivePids]
    /\ pc' = [pc EXCEPT ![t] = "r_ports"]
    /\ UNCHANGED <<faults, apiVars, manager, redis, registry, lock, config_dirs, call, result,
                   pre, lastCall, liveCreates>>

\* The ports remove_instance walks: control, game TCP, game UDP, query.
RemovePorts(info) ==
    <<info.rathole_port, info.tunnel_game_tcp_port, info.tunnel_game_udp_port,
      info.tunnel_query_port>>

\* `for port in [...]: if port and port in self.port_allocations: del ...; hdel`.
RemoveReleasePorts(t) ==
    /\ pc[t] = "r_ports"
    /\ LET ports == RemovePorts(instances[call[t].server_id]) IN
       /\ port_allocations' = ReleaseFrom(port_allocations, ports)
       /\ redis_port_allocations' =
            HDelAll(redis_port_allocations, ReleasedBy(port_allocations, ports))
       /\ loc' = [loc EXCEPT ![t].released = ReleasedBy(port_allocations, ports)]
    /\ pc' = [pc EXCEPT ![t] = "r_rmtree"]
    /\ UNCHANGED <<faults, apiVars, manager, redis, instances, frps_ports, frps_processes,
                   redis_frps_ports, redis_instances, lock, config_dirs, procs,
                   call, result, pre, lastCall, liveCreates>>

\* `if config_dir.exists(): shutil.rmtree(config_dir)`; rmtree may raise, with
\* the directory deleted in part, and the method returns the error.
RemoveTree(t) ==
    /\ pc[t] = "r_rmtree"
    /\ IF call[t].server_id \in config_dirs
       THEN \/ /\ config_dirs' = config_dirs \ {call[t].server_id}
               /\ pc' = [pc EXCEPT ![t] = "r_untrack"]
               /\ UNCHANGED <<result, faults>>
            \/ /\ faults < MaxFaults
               /\ faults' = faults + 1
               /\ UNCHANGED config_dirs
               /\ result' = [result EXCEPT ![t] = Error("rmtree raised")]
               /\ pc' = [pc EXCEPT ![t] = "ret"]
       ELSE /\ pc' = [pc EXCEPT ![t] = "r_untrack"]
            /\ UNCHANGED <<config_dirs, result, faults>>
    /\ UNCHANGED <<apiVars, manager, redis, registry, lock, procs, call, loc, pre,
                   lastCall, liveCreates>>

\* A remove that forgets `del self.instances[server_id]`.
RemoveUntrackKeepsRecord(t) ==
    /\ pc[t] = "r_untrack"
    /\ redis_instances' = HDel(redis_instances, call[t].server_id)
    /\ result' = [result EXCEPT ![t] = Success]
    /\ pc' = [pc EXCEPT ![t] = "ret"]
    /\ UNCHANGED <<faults, apiVars, manager, redis, instances, port_allocations, frps_ports,
                   frps_processes, redis_port_allocations, redis_frps_ports, lock,
                   config_dirs, procs, call, loc, pre, lastCall, liveCreates>>

\* `del self.instances[server_id]`, delete of the persisted record, success.
RemoveUntrack(t) ==
    /\ pc[t] = "r_untrack"
    /\ instances' = Del(instances, call[t].server_id)
    /\ redis_instances' = HDel(redis_instances, call[t].server_id)
    /\ result' = [result EXCEPT ![t] = Success]
    /\ pc' = [pc EXCEPT ![t] = "ret"]
    /\ UNCHANGED <<faults, apiVars, manager, redis, port_allocations, frps_ports, frps_processes,
                   redis_port_allocations, redis_frps_ports, lock, config_dirs,
                   procs, call, loc, pre, lastCall, liveCreates>>

RatholeRemove(t) ==
    \/ RemoveCheck(t)
    \/ RemoveTerminate(t)
    \/ RemoveKill(t)
    \/ RemoveReleasePorts(t)
    \/ RemoveTree(t)
    \/ RemoveUntrack(t)

\* ------------------------------------------------------- FrpManager: create
\* `if server_id in self.instances: return error`.
FrpCreateCheck(t) ==
    /\ pc[t] = "fc_check"
    /\ IF call[t].server_id \in DOMAIN instances
       THEN /\ result' = [result EXCEPT ![t] = Error("already exists")]
            /\ pc' = [pc EXCEPT ![t] = "ret"]
       ELSE /\ pc' = [pc EXCEPT ![t] = "fc_game"]
            /\ UNCHANGED result
    /\ UNCHANGED <<faults, apiVars, manager, redis, registry, lock, config_dirs, procs, call,
                   loc, pre, lastCall, liveCreates>>

\* `if game_port in self.port_allocations: return error`, else it is indexed.
FrpCreateGamePort(t) ==
    /\ pc[t] = "fc_game"
    /\ IF call[t].game_port \in DOMAIN port_allocations
       THEN /\ result' = [result EXCEPT ![t] = Error("Port already allocated")]
            /\ pc' = [pc EXCEPT ![t] = "ret"]
            /\ UNCHANGED port_allocations
       ELSE /\ port_allocations' =
                 Put(port_allocations, call[t].game_port, call[t].server_id)
            /\ pc' = [pc EXCEPT ![t] = "fc_query"]
            /\ UNCHANGED result
    /\ UNCHANGED <<faults, apiVars, manager, redis, instances, frps_ports, frps_processes,
                   redis_port_allocations, redis_frps_ports, redis_instances, lock,
                   config_dirs, procs, call, loc, pre, lastCall, liveCreates>>

\* `if query_port is not None:` the same for the query port; on a clash the game
\* port is given back.
FrpCreateQueryPort(t) ==
    /\ pc[t] = "fc_query"
    /\ IF call[t].query_port = None
       THEN /\ pc' = [pc EXCEPT ![t] = "fc_frps"]
            /\ UNCHANGED <<port_allocations, result>>
       ELSE IF call[t].query_port \in DOMAIN port_allocations
            THEN /\ port_allocations' = Del(port_allocations, call[t].game_port)
                 /\ result' = [result EXCEPT ![t] = Error("Port already allocated")]
                 /\ pc' = [pc EXCEPT ![t] = "ret"]
            ELSE /\ port_allocations' =
                      Put(port_allocations, call[t].query_port, call[t].server_id)
                 /\ pc' = [pc EXCEPT ![t] = "fc_frps"]
                 /\ UNCHANGED result
    /\ UNCHANGED <<faults, apiVars, manager, redis, instances, frps_ports, frps_processes,
                   redis_port_allocations, redis_frps_ports, redis_instances, lock,
                   config_dirs, procs, call, loc, pre, lastCall, liveCreates>>

\* The ports `range(FRPS_PORT_RANGE_START, FRPS_PORT_RANGE_END)` walks.
FrpsPortRange == FRPS_PORT_RANGE_START..(FRPS_PORT_RANGE_END - 1)

\* The first port of the range not in frps_ports becomes the control port; with
\* none free the game and query ports are given back.
FrpCreateFrpsPort(t) ==
    /\ pc[t] = "fc_frps"
    /\ LET free == {p \in FrpsPortRange : p \notin DOMAIN frps_ports} IN
       IF free = {}
       THEN /\ port_allocations' =
                 LET m == Del(port_allocations, call[t].game_port) IN
                 IF call[t].query_port # None THEN Del(m, call[t].query_port) ELSE m
            /\ result' = [result EXCEPT ![t] = Error("No available frps ports")]
            /\ pc' = [pc EXCEPT ![t] = "ret"]
            /\ UNCHANGED <<frps_ports, loc>>
       ELSE /\ frps_ports' = Put(frps_ports, Min(free), call[t].server_id)
            /\ loc' = [loc EXCEPT ![t].frps_port = Min(free),
                                  ![t].frps_token = token_urlsafe]
            /\ pc' = [pc EXCEPT ![t] = "fc_config"]
            /\ UNCHANGED <<port_allocations, result>>
    /\ UNCHANGED <<faults, apiVars, manager, redis, instances, frps_processes,
                   redis_port_allocations, redis_frps_ports, redis_instances, lock,
                   config_dirs, procs, call, pre, lastCall, liveCreates>>

\* mkdir of the config directory and write of frps.ini; an exception leaves the
\* method (nothing catches it) and the `with` gives the lock back.
FrpCreateWriteConfig(t) ==
    /\ pc[t] = "fc_config"
    /\ \/ /\ config_dirs' = config_dirs \cup {call[t].server_id}
          /\ pc' = [pc EXCEPT ![t] = "fc_spawn"]
          /\ UNCHANGED <<result, faults>>
       \/ /\ faults < MaxFaults
          /\ faults' = faults + 1
          /\ \E made \in BOOLEAN :
               config_dirs' = IF made THEN config_dirs \cup {call[t].server_id}
                              ELSE config_dirs
          /\ result' = [result EXCEPT ![t] = Raised("config write raised")]
          /\ pc' = [pc EXCEPT ![t] = "ret"]
    /\ UNCHANGED <<apiVars, manager, redis, registry, lock, procs, call, loc, pre,
                   lastCall, liveCreates>>

\* subprocess.Popen of frps: a new process, or an exception that leaves the method.
FrpCreateSpawn(t) ==
    /\ pc[t] = "fc_spawn"
    /\ \/ /\ FreshPids # {}
          /\ LET pid == Min(FreshPids) IN
             /\ procs' = procs \cup
                  {[pid |-> pid, server_id |-> call[t].server_id,
                    ports |-> {loc[t].frps_port},
                    token |-> loc[t].frps_token]}
             /\ loc' = [loc EXCEPT ![t].pid = pid]
          /\ pc' = [pc EXCEPT ![t] = "fc_track"]
          /\ UNCHANGED <<result, faults>>
       \/ /\ faults < MaxFaults
          /\ faults' = faults + 1
          /\ result' = [result EXCEPT ![t] = Raised("spawn raised")]
          /\ pc' = [pc EXCEPT ![t] = "ret"]
          /\ UNCHANGED <<procs, loc>>
    /\ UNCHANGED <<apiVars, manager, redis, registry, lock, config_dirs, call, pre,
                   lastCall, liveCreates>>

\* The inst FrpManager.create_instance builds.
FrpInst(server_id, game_port, query_port, frps_port, frps_token, owner_id) ==
    [server_id |-> server_id,
     game_port |-> game_port,
     query_port |-> query_port,
     tunnel_game_port |-> game_port,
     tunnel_query_port |-> query_port,
     frps_port |-> frps_port,
     frps_token |-> frps_token,
     owner_id |-> owner_id]

frp_inst(t) ==
    FrpInst(call[t].server_id, call[t].game_port, call[t].query_port,
            loc[t].frps_port, loc[t].frps_token, call[t].owner_id)

\* The instance and its process are tracked, then _save_instance mirrors the
\* record and its ports to the store; the call returns success.
FrpCreateTrack(t) ==
    /\ pc[t] = "fc_track"
    /\ LET inst == frp_inst(t) IN
       /\ instances' = Put(instances, inst.server_id, inst)
       /\ frps_processes' = Put(frps_processes, inst.server_id, loc[t].pid)
       /\ redis_instances' = HSet(redis_instances, inst.server_id, inst)
       /\ redis_port_allocations' =
            LET h == HSet(redis_port_allocations, inst.tunnel_game_port, inst.server_id) IN
            IF inst.tunnel_query_port # None
            THEN HSet(h, inst.tunnel_query_port, inst.server_id) ELSE h
       /\ redis_frps_ports' =
            IF inst.frps_port # None
            THEN HSet(redis_frps_ports, inst.frps_port, inst.server_id)
            ELSE redis_frps_ports
    /\ result' = [result EXCEPT ![t] = Success]
    /\ pc' = [pc EXCEPT ![t] = "ret"]
    /\ UNCHANGED <<faults, apiVars, manager, redis, port_allocations, frps_ports, lock,
                   config_dirs, procs, call, loc, pre, lastCall, liveCreates>>

FrpCreate(t) ==
    \/ FrpCreateCheck(t)
    \/ FrpCreateGamePort(t)
    \/ FrpCreateQueryPort(t)
    \/ FrpCreateFrpsPort(t)
    \/ FrpCreateWriteConfig(t)
    \/ FrpCreateSpawn(t)
    \/ FrpCreateTrack(t)

\* ------------------------------------------------------- FrpManager: remove
\* `inst = self.instances.pop(server_id, None)`; without one, not found.
FrpRemovePop(t) ==
    /\ pc[t] = "fr_pop"
    /\ IF call[t].server_id \notin DOMAIN instances
       THEN /\ result' = [result EXCEPT ![t] = Error("not found")]
            /\ pc' = [pc EXCEPT ![t] = "ret"]
            /\ UNCHANGED <<instances, loc>>
       ELSE /\ instances' = Del(instances, call[t].server_id)
            /\ loc' = [loc EXCEPT ![t].inst = <<instances[call[t].server_id]>>]
            /\ pc' = [pc EXCEPT ![t] = "fr_release"]
            /\ UNCHANGED result
    /\ UNCHANGED <<faults, apiVars, manager, redis, port_allocations, frps_ports,
                   frps_processes, redis_port_allocations, redis_frps_ports,
                   redis_instances, lock, config_dirs, procs, call, pre, lastCall,
                   liveCreates>>

\* _release_ports(inst): the tunnel ports leave port_allocations and the control
\* port leaves frps_ports, each only if it is there, with its hdel.
FrpReleasePorts(t) ==
    /\ pc[t] = "fr_release"
    /\ LET inst == loc[t].inst[1]
           ports == <<inst.tunnel_game_port, inst.tunnel_query_port>>
           frps == <<inst.frps_port>>
       IN /\ port_allocations' = ReleaseFrom(port_allocations, ports)
          /\ redis_port_allocations' =
               HDelAll(redis_port_allocations, ReleasedBy(port_allocations, ports))
          /\ frps_ports' = ReleaseFrom(frps_ports, frps)
          /\ redis_frps_ports' =
               HDelAll(redis_frps_ports, ReleasedBy(frps_ports, frps))
          /\ loc' = [loc EXCEPT ![t].released =
                       ReleasedBy(port_allocations, ports) \o ReleasedBy(frps_ports, frps)]
    /\ pc' = [pc EXCEPT ![t] = "fr_term"]
    /\ UNCHANGED <<faults, apiVars, manager, redis, instances, frps_processes,
                   redis_instances, lock, config_dirs, procs, call, result, pre,
                   lastCall, liveCreates>>

\* `proc = self.frps_processes.pop(server_id, None)`; a live one is sent
\* terminate() and may exit within the wait(timeout=10).
FrpRemoveTerminate(t) ==
    /\ pc[t] = "fr_term"
    /\ LET s == call[t].server_id IN
       /\ frps_processes' = Del(frps_processes, s)
       /\ IF s \in DOMAIN frps_processes /\ frps_processes[s] \in LivePids
          THEN /\ loc' = [loc EXCEPT ![t].pid = frps_processes[s]]
               /\ \E exits \in BOOLEAN :
                    procs' = IF exits THEN {p \in procs : p.pid # frps_processes[s]}
                             ELSE procs
               /\ pc' = [pc EXCEPT ![t] = "fr_kill"]
          ELSE /\ pc' = [pc EXCEPT ![t] = "fr_delete"]
               /\ UNCHANGED <<procs, loc>>
    /\ UNCHANGED <<faults, apiVars, manager, redis, instances, port_allocations, frps_ports,
                   redis_port_allocations, redis_frps_ports, redis_instances, lock,
                   config_dirs, call, result, pre, lastCall, liveCreates>>

\* The wait timed out: proc.kill().
FrpRemoveKill(t) ==
    /\ pc[t] = "fr_kill"
    /\ procs' = {p \in procs : p.pid # loc[t].pid}
    /\ loc' = [loc EXCEPT ![t].forced = loc[t].pid \in LivePids]
    /\ pc' = [pc EXCEPT ![t] = "fr_delete"]
    /\ UNCHANGED <<faults, apiVars, manager, redis, registry, lock, config_dirs, call,
                   result, pre, lastCall, liveCreates>>

\* The persisted record is deleted.
FrpRemoveDelete(t) ==
    /\ pc[t] = "fr_delete"
    /\ redis_instances' = HDel(redis_instances, call[t].server_id)
    /\ pc' = [pc EXCEPT ![t] = "fr_files"]
    /\ UNCHANGED <<faults, apiVars, manager, redis, instances, port_allocations, frps_ports,
                   frps_processes, redis_port_allocations, redis_frps_ports, lock,
                   config_dirs, procs, call, loc, result, pre, lastCall, liveCreates>>

\* `if path.exists():` its files are unlinked and it is removed; an exception
\* there leaves the method.
FrpRemoveFiles(t) ==
    /\ pc[t] = "fr_files"
    /\ IF call[t].server_id \in config_dirs
       THEN \/ /\ config_dirs' = config_dirs \ {call[t].server_id}
               /\ result' = [result EXCEPT ![t] = Success]
               /\ UNCHANGED faults
            \/ /\ faults < MaxFaults
               /\ faults' = faults + 1
               /\ UNCHANGED config_dirs
               /\ result' = [result EXCEPT ![t] = Raised("unlink raised")]
       ELSE /\ result' = [result EXCEPT ![t] = Success]
            /\ UNCHANGED <<config_dirs, faults>>
    /\ pc' = [pc EXCEPT ![t] = "ret"]
    /\ UNCHANGED <<apiVars, manager, redis, registry, lock, procs, call, loc, pre,
                   lastCall, liveCreates>>

FrpRemove(t) ==
    \/ FrpRemovePop(t)
    \/ FrpReleasePorts(t)
    \/ FrpRemoveTerminate(t)
    \/ FrpRemoveKill(t)
    \/ FrpRemoveDelete(t)
    \/ FrpRemoveFiles(t)

\* -------------------------------------------------------------------- Next
Next ==
    \/ \E t \in Threads : Invoke(t)
    \/ \E t \in Threads : AcquireCreate(t)
    \/ \E t \in Threads : AcquireRemove(t)
    \/ \E t \in Threads : Release(t)
    \/ \E t \in Threads : RatholeCreate(t)
    \/ \E t \in Threads : RatholeRemove(t)
    \/ \E t \in Threads : FrpCreate(t)
    \/ \E t \in Threads : FrpRemove(t)
    \/ ProcessExits

Spec == Init /\ [][Next]_vars

\* ======================================================== HTTP layer (Rathole)
\* The requests of this layer call the manager's methods, which the lock
\* serialises; a method call is one step here.
\* The identities the auth service answers with.
UserA == [id |-> "a", username |-> "alice", roles |-> {"USER"}, is_legacy |-> FALSE]

UserB == [id |-> "b", username |-> "bob", roles |-> {"USER"}, is_legacy |-> FALSE]

AdminUser == [id |-> "adm", username |-> "root", roles |-> {"ADMIN"}, is_legacy |-> FALSE]

\* g.user of a request the legacy path accepted.
LegacyUser == [id |-> "legacy", username |-> "system", roles |-> {"SERVICE_ACCOUNT"},
               is_legacy |-> TRUE]

\* GET AUTH_VALIDATE_ENDPOINT with the bearer token: the identity of a 200
\* answer, NoUser otherwise.
AuthService(token) ==
    CASE token = "tokA" -> UserA
      [] token = "tokB" -> UserB
      [] token = "tokAdmin" -> AdminUser
      [] OTHER -> NoUser

\* The tokens a client may put after `Bearer `.
BearerTokens == {API_TOKEN, "tokA", "tokB", "tokAdmin", "bad"}

Authorizations == {NoHeader} \cup {<<"Bearer", k>> : k \in BearerTokens}

ApiTokens == {NoToken, API_TOKEN, "bad"}

BodyTokens == {NoToken, API_TOKEN}

\* The endpoints: POST/DELETE/GET /api/instances[/<id>[/client-config]] and
\* DELETE /api/admin/instances/<id>.
Ops == {"create", "remove", "get", "client_config", "list", "admin_remove"}

\* The argument of @require_auth on each endpoint.
RolesRequired(op) == IF op = "admin_remove" THEN {"ADMIN"} ELSE {}

validate_auth_token(auth_header) ==
    IF auth_header = NoHeader \/ auth_header[1] # "Bearer"
    THEN NoUser
    ELSE AuthService(auth_header[2])

\* A Bearer header decides alone; without one a present X-API-Token decides
\* alone; without either the JSON body's token decides.
check_legacy_auth(req) ==
    IF ~LEGACY_AUTH_ENABLED THEN FALSE
    ELSE IF req.authorization # NoHeader /\ req.authorization[1] = "Bearer"
         THEN req.authorization[2] = API_TOKEN
    ELSE IF req.x_api_token # NoToken
         THEN req.x_api_token = API_TOKEN
    ELSE req.body_token = API_TOKEN

\* The decorator: [code |-> 0] lets the handler run with g.user = user.
require_auth(req, roles_required) ==
    IF check_legacy_auth(req)
    THEN [code |-> 0, user |-> LegacyUser]
    ELSE LET user_info == validate_auth_token(req.authorization) IN
         IF user_info = NoUser
         THEN [code |-> 401, user |-> NoUser]
         ELSE IF roles_required # {} /\ user_info.roles \cap roles_required = {}
         THEN [code |-> 403, user |-> user_info]
         ELSE [code |-> 0, user |-> user_info]

is_admin_or_service(user) ==
    /\ user # NoUser
    /\ \/ user.is_legacy
       \/ user.roles \cap {"ADMIN", "SERVICE_ACCOUNT"} # {}

\* An ownership check that lets everybody through.
can_access_tunnel_open(user, server_id) == user # NoUser

can_access_tunnel(user, server_id) ==
    /\ user # NoUser
    /\ \/ user.is_legacy
       \/ is_admin_or_service(user)
       \/ IF server_id \in DOMAIN instances
          THEN instances[server_id].owner_id = user.id
          ELSE TRUE

Respond(code, error) == [NoResponse EXCEPT !.code = code, !.error = error]

\* Everything below the HTTP layer.
managerVars == <<instances, port_allocations, redis_port_allocations, redis_instances,
                 config_dirs, procs>>

\* What no request of this layer touches.
apiFrame == <<manager, redis, LEGACY_AUTH_ENABLED, shutdown, agentVars, frps_ports, frps_processes,
              redis_frps_ports, lock, faults, call, loc, result, pre, lastCall,
              liveCreates>>

\* The credentials a request may carry.
Credentials ==
    {[NoRequest EXCEPT !.authorization = a, !.x_api_token = x, !.body_token = b] :
       a \in Authorizations, x \in ApiTokens, b \in BodyTokens}

\* The requests of thread 1 range over every credential and endpoint; the other
\* threads are the concurrent traffic of one more client, bob, who creates and
\* deletes tunnels.
CredentialsOf(t) ==
    IF t = 1 THEN Credentials
    ELSE {[NoRequest EXCEPT !.authorization = <<"Bearer", "tokB">>]}

OpsOf(t) == IF t = 1 THEN Ops ELSE {"create", "remove"}

\* A request arrives with its credentials.
Receive(t) ==
    /\ pc[t] = "idle"
    /\ \E req \in CredentialsOf(t) : request' = [request EXCEPT ![t] = req]
    /\ pc' = [pc EXCEPT ![t] = "auth"]
    /\ UNCHANGED <<apiFrame, managerVars, g_user, response>>

\* The route's require_auth runs; a rejected request is answered at once.  The
\* route and its <server_id> are read from here on only.
Authenticate(t) ==
    /\ pc[t] = "auth"
    /\ \E op \in OpsOf(t), s \in ServerIds :
         LET auth == require_auth(request[t], RolesRequired(op)) IN
         /\ request' = [request EXCEPT ![t] =
                          [NoRequest EXCEPT !.op = op, !.server_id = s]]
         /\ g_user' = [g_user EXCEPT ![t] = auth.user]
         /\ IF auth.code = 0
            THEN /\ pc' = [pc EXCEPT ![t] = "handler"]
                 /\ UNCHANGED response
            ELSE /\ response' = [response EXCEPT ![t] =
                      Respond(auth.code, IF auth.code = 401
                                         THEN "Authentication required"
                                         ELSE "Insufficient permissions")]
                 /\ pc' = [pc EXCEPT ![t] = "done"]
    /\ UNCHANGED <<apiFrame, managerVars>>

\* The game port the requests of this layer ask a tunnel for (no query port).
ApiGamePort == 7777

\* POST /api/instances: create_instance(server_id, game_port, None, g.user id,
\* g.user username); 200 on success, 500 otherwise.
ApiCreate(t) ==
    /\ pc[t] = "handler" /\ request[t].op = "create"
    /\ LET s == request[t].server_id
           rathole_port == allocate_rathole_port
           tunnel_game_port == allocate_game_port
           pid == Min(FreshPids)
           info == InstanceInfo(s, ApiGamePort, None, tunnel_game_port, None,
                                rathole_port, g_user[t].id, g_user[t].username, pid)
       IN
       IF s \in DOMAIN instances
       THEN /\ response' = [response EXCEPT ![t] = Respond(500, "already exists")]
            /\ UNCHANGED managerVars
       ELSE IF rathole_port = None
       THEN /\ response' = [response EXCEPT ![t] =
                              Respond(500, "No available Rathole control ports")]
            /\ UNCHANGED managerVars
       ELSE IF tunnel_game_port = None
       THEN /\ port_allocations' = Put(port_allocations, rathole_port, s)
            /\ redis_port_allocations' = HSet(redis_port_allocations, rathole_port, s)
            /\ response' = [response EXCEPT ![t] =
                              Respond(500, "No available tunnel game ports")]
            /\ UNCHANGED <<instances, redis_instances, config_dirs, procs>>
       ELSE /\ FreshPids # {}
            /\ port_allocations' =
                 Put(Put(port_allocations, rathole_port, s), tunnel_game_port, s)
            /\ redis_port_allocations' =
                 HSet(HSet(redis_port_allocations, rathole_port, s), tunnel_game_port, s)
            /\ config_dirs' = config_dirs \cup {s}
            /\ procs' = procs \cup
                 {[pid |-> pid, server_id |-> s,
                   ports |-> ConfigPorts(rathole_port, tunnel_game_port, None),
                   token |-> ConfigToken]}
            /\ instances' = Put(instances, s, info)
            /\ redis_instances' = HSet(redis_instances, s, info)
            /\ response' = [response EXCEPT ![t] = Respond(200, "")]
    /\ pc' = [pc EXCEPT ![t] = "done"]
    /\ UNCHANGED <<apiFrame, request, g_user>>

\* remove_instance(server_id) as the handlers call it: 200 on success, 404 on
\* not found.
ManagerRemove(t) ==
    LET s == request[t].server_id IN
    IF s \notin DOMAIN instances
    THEN /\ response' = [response EXCEPT ![t] = Respond(404, "not found")]
         /\ UNCHANGED managerVars
    ELSE LET info == instances[s]
             ports == RemovePorts(info)
         IN /\ procs' = IF info.is_running /\ info.pid # None
                        THEN {p \in procs : p.pid # info.pid}
                        ELSE procs
            /\ port_allocations' = ReleaseFrom(port_allocations, ports)
            /\ redis_port_allocations' =
                 HDelAll(redis_port_allocations, ReleasedBy(port_allocations, ports))
            /\ config_dirs' = config_dirs \ {s}
            /\ instances' = Del(instances, s)
            /\ redis_instances' = HDel(redis_instances, s)
            /\ response' = [response EXCEPT ![t] = Respond(200, "")]

\* The handlers of <server_id> routes start with `if not can_access_tunnel`.
AccessCheck(t) ==
    /\ pc[t] = "handler" /\ request[t].op \in {"remove", "get", "client_config"}
    /\ IF can_access_tunnel(g_user[t], request[t].server_id)
       THEN /\ pc' = [pc EXCEPT ![t] = "call"]
            /\ UNCHANGED response
       ELSE /\ response' = [response EXCEPT ![t] = Respond(403, "Access denied")]
            /\ pc' = [pc EXCEPT ![t] = "done"]
    /\ UNCHANGED <<apiFrame, managerVars, request, g_user>>

\* DELETE /api/instances/<server_id> after the access check.
ApiRemove(t) ==
    /\ pc[t] = "call" /\ request[t].op = "remove"
    /\ ManagerRemove(t)
    /\ pc' = [pc EXCEPT ![t] = "done"]
    /\ UNCHANGED <<apiFrame, request, g_user>>

\* DELETE /api/admin/instances/<server_id>.
ApiAdminRemove(t) ==
    /\ pc[t] = "handler" /\ request[t].op = "admin_remove"
    /\ ManagerRemove(t)
    /\ pc' = [pc EXCEPT ![t] = "done"]
    /\ UNCHANGED <<apiFrame, request, g_user>>

\* GET /api/instances/<server_id> after the access check.
ApiGet(t) ==
    /\ pc[t] = "call" /\ request[t].op = "get"
    /\ LET s == request[t].server_id IN
       response' = [response EXCEPT ![t] =
                      IF s \in DOMAIN instances
                      THEN [Respond(200, "") EXCEPT !.instance = <<instances[s]>>]
                      ELSE Respond(404, "not found")]
    /\ pc' = [pc EXCEPT ![t] = "done"]
    /\ UNCHANGED <<apiFrame, managerVars, request, g_user>>

\* The service sections of a client config: game_tcp and game_udp, and query
\* `if original_query_port`.
ServiceNames(query_port) ==
    {"game_tcp", "game_udp"} \cup (IF query_port # None THEN {"query"} ELSE {})

\* A client config whose game services point at the public tunnel port.
ClientConfigTunnel(info) ==
    [remote_addr |-> info.rathole_port,
     default_token |-> API_TOKEN,
     local_addr |-> [n \in ServiceNames(info.query_port) |->
                      IF n = "query" THEN info.tunnel_query_port
                      ELSE info.tunnel_game_tcp_port]]

\* The text RatholeInstanceManager.get_client_config builds from a record:
\* remote_addr and default_token of [client], local_addr of each
\* [client.services.<id>_<name>].
ClientConfig(info) ==
    [remote_addr |-> info.rathole_port,
     default_token |-> API_TOKEN,
     local_addr |-> [n \in ServiceNames(info.query_port) |->
                      IF n = "query" THEN info.query_port ELSE info.game_port]]

\* The text FrpManager.get_client_config builds from a record: server_port and
\* auth.token of [common], local_port and remote_port of each [<id>_<name>].
FrpClientConfig(inst) ==
    [server_port |-> inst.frps_port,
     token |-> inst.frps_token,
     local_port |-> [n \in ServiceNames(inst.query_port) |->
                      IF n = "query" THEN inst.query_port ELSE inst.game_port],
     remote_port |-> [n \in ServiceNames(inst.query_port) |->
                       IF n = "query" THEN inst.tunnel_query_port
                       ELSE inst.tunnel_game_port]]

\* GET /api/instances/<server_id>/client-config after the access check.
ApiClientConfig(t) ==
    /\ pc[t] = "call" /\ request[t].op = "client_config"
    /\ LET s == request[t].server_id IN
       response' = [response EXCEPT ![t] =
                      IF s \in DOMAIN instances
                      THEN [Respond(200, "") EXCEPT !.config = <<ClientConfig(instances[s])>>]
                      ELSE Respond(404, "not found")]
    /\ pc' = [pc EXCEPT ![t] = "done"]
    /\ UNCHANGED <<apiFrame, managerVars, request, g_user>>

\* GET /api/instances.  list_instances() returns dict(self.instances); an admin
\* or service account gets it whole.  For anybody else the handler filters
\* `instance.get('owner_id') == user_id` over what iterating that dict yields,
\* its keys: with a key to look at, str has no `get`, and the except answers 500.
ApiList(t) ==
    /\ pc[t] = "handler" /\ request[t].op = "list"
    /\ response' = [response EXCEPT ![t] =
         IF is_admin_or_service(g_user[t])
         THEN [Respond(200, "") EXCEPT
                 !.instances = {instances[s] : s \in DOMAIN instances}]
         ELSE IF DOMAIN instances = {}
         THEN Respond(200, "")
         ELSE Respond(500, "'str' object has no attribute 'get'")]
    /\ pc' = [pc EXCEPT ![t] = "done"]
    /\ UNCHANGED <<apiFrame, managerVars, request, g_user>>

\* The response is sent; the request context is gone.
Finish(t) ==
    /\ pc[t] = "done"
    /\ pc' = [pc EXCEPT ![t] = "idle"]
    /\ request' = [request EXCEPT ![t] = NoRequest]
    /\ g_user' = [g_user EXCEPT ![t] = NoUser]
    /\ response' = [response EXCEPT ![t] = NoResponse]
    /\ UNCHANGED <<apiFrame, managerVars>>

\* A record key that is absent, as `.get('owner_id')` reads it.
NoOwner == "None"

\* _parse_config_ports of the config of server_id: the control port of the first
\* bind_addr, which create_instance wrote from the record's rathole_port; no
\* line of a server config holds local_addr, so game and query port are None.
parse_config_ports(server_id) ==
    [game_port |-> None, query_port |-> None,
     rathole_port |-> IF server_id \in DOMAIN instances
                      THEN instances[server_id].rathole_port ELSE None]

\* The record _restore_instances builds from the directory of server_id when
\* the processes of `alive` are running.  rathole.pid is there as long as no
\* restore has unlinked it, which is what is_running = False records.
RestoredInfo(server_id, alive) ==
    LET ports == parse_config_ports(server_id)
        pid_file == server_id \in DOMAIN instances /\ instances[server_id].is_running
        pid == IF pid_file THEN instances[server_id].pid ELSE None
    IN [server_id |-> server_id,
        game_port |-> ports.game_port,
        query_port |-> ports.query_port,
        tunnel_game_tcp_port |-> None,
        tunnel_game_udp_port |-> None,
        tunnel_query_port |-> None,
        rathole_port |-> ports.rathole_port,
        owner_id |-> NoOwner,
        owner_username |-> NoOwner,
        is_running |-> pid_file /\ pid \in alive,
        pid |-> pid]

\* The manager process is started anew between requests: __init__ loads the
\* persisted state, then _restore_instances writes a record for every instance
\* directory over it.  Relay processes may or may not have outlived the old
\* manager.
Restart ==
    /\ \A t \in Threads : pc[t] = "idle"
    /\ \E survivors \in SUBSET procs :
         LET alive == {p.pid : p \in survivors}
             loaded == IF redis THEN redis_instances ELSE EmptyMap
             index == IF redis THEN redis_port_allocations ELSE EmptyMap
             restored == {s \in config_dirs : RestoredInfo(s, alive).rathole_port # None}
             port_of == [s \in restored |-> RestoredInfo(s, alive).rathole_port]
             ports == {port_of[s] : s \in restored}
         IN /\ procs' = survivors
            /\ instances' = [s \in DOMAIN loaded \cup config_dirs |->
                               IF s \in config_dirs THEN RestoredInfo(s, alive)
                               ELSE loaded[s]]
            /\ port_allocations' =
                 [port \in DOMAIN index \cup ports |->
                    IF port \in ports
                    THEN CHOOSE s \in restored : port_of[s] = port
                    ELSE index[port]]
            /\ redis_port_allocations' =
                 IF redis THEN port_allocations' ELSE redis_port_allocations
            /\ redis_instances' = IF redis THEN instances' ELSE redis_instances
    /\ UNCHANGED <<apiFrame, config_dirs, pc, request, g_user, response>>

ApiInit ==
    /\ manager = "rathole"
    /\ redis \in BOOLEAN
    /\ LEGACY_AUTH_ENABLED \in BOOLEAN
    /\ instances = EmptyMap
    /\ port_allocations = EmptyMap
    /\ frps_ports = EmptyMap
    /\ frps_processes = EmptyMap
    /\ lock = NoThread
    /\ redis_port_allocations = EmptyMap
    /\ redis_frps_ports = EmptyMap
    /\ redis_instances = EmptyMap
    /\ config_dirs = {}
    /\ faults = 0
    /\ procs = {}
    /\ pc = [t \in Threads |-> "idle"]
    /\ call = [t \in Threads |-> NoCall]
    /\ loc = [t \in Threads |-> NoLocals]
    /\ result = [t \in Threads |-> NoResult]
    /\ pre = NoSnapshot
    /\ lastCall = NoLastCall
    /\ liveCreates = [s \in ServerIds |-> 0]
    /\ request = [t \in Threads |-> NoRequest]
    /\ g_user = [t \in Threads |-> NoUser]
    /\ response = [t \in Threads |-> NoResponse]
    /\ shutdown = NoShutdown
    /\ AgentIdle

\* One step of the request of thread t.
Request(t) ==
    \/ Receive(t)
    \/ Authenticate(t)
    \/ ApiCreate(t)
    \/ AccessCheck(t)
    \/ ApiRemove(t)
    \/ ApiAdminRemove(t)
    \/ ApiGet(t)
    \/ ApiClientConfig(t)
    \/ ApiList(t)
    \/ Finish(t)

\* Concurrent requests to a manager that stays up.
ApiNext == \E t \in Threads : Request(t)

ApiSpec == ApiInit /\ [][ApiNext]_vars

\* The requests of one client to a manager that is restarted between them.
RecoveryNext ==
    \/ Request(1)
    \/ Restart

RecoverySpec == ApiInit /\ [][RecoveryNext]_vars

\* ============================================================ HTTP layer (FRP)
\* The control API of frp_instance_manager.py; a manager call is one step.
\* g.user of a request FrpManager's legacy path accepted.
FrpLegacyUser == [id |-> "legacy", username |-> "legacy", roles |-> {},
                  is_legacy |-> TRUE]

\* `hdr = X-API-Token or Authorization`: a present header decides alone by its
\* last word; without a header the JSON body's token decides.
frp_check_legacy_auth(req) ==
    IF ~LEGACY_AUTH_ENABLED THEN FALSE
    ELSE IF req.x_api_token # NoToken
         THEN req.x_api_token = API_TOKEN
    ELSE IF req.authorization # NoHeader
         THEN req.authorization[2] = API_TOKEN
    ELSE req.body_token = API_TOKEN

\* The decorator of every route: 0 lets the request through to the handler.
frp_require_auth(req) ==
    IF frp_check_legacy_auth(req)
    THEN [code |-> 0, user |-> FrpLegacyUser]
    ELSE LET user == validate_auth_token(req.authorization) IN
         IF user = NoUser
         THEN [code |-> 401, user |-> NoUser]
         ELSE [code |-> 0, user |-> user]

\* The routes of the FRP control API.
FrpOps == {"create", "remove", "client_config"}

\* The game ports the create requests of this layer ask for.
FrpApiGamePorts == {7777, 7778}

\* What no request of this layer touches.
frpApiFrame == <<manager, redis, LEGACY_AUTH_ENABLED, shutdown, agentVars, lock, faults, call, loc,
                 result, pre, lastCall, liveCreates>>

frpManagerVars == <<instances, port_allocations, frps_ports, frps_processes,
                    redis_port_allocations, redis_frps_ports, redis_instances,
                    config_dirs, procs>>

\* The route's require_auth runs; a rejected request is answered at once.
FrpAuthenticate(t) ==
    /\ pc[t] = "auth"
    /\ \E op \in FrpOps \cap OpsOf(t), s \in ServerIds :
         LET auth == frp_require_auth(request[t]) IN
         /\ request' = [request EXCEPT ![t] =
                          [NoRequest EXCEPT !.op = op, !.server_id = s]]
         /\ g_user' = [g_user EXCEPT ![t] = auth.user]
         /\ IF auth.code = 0
            THEN /\ pc' = [pc EXCEPT ![t] = "handler"]
                 /\ UNCHANGED response
            ELSE /\ response' = [response EXCEPT ![t] =
                                   Respond(auth.code, "Authentication required")]
                 /\ pc' = [pc EXCEPT ![t] = "done"]
    /\ UNCHANGED <<frpApiFrame, frpManagerVars>>

\* POST /api/instances: create_instance(server_id, game_port, None, g.user id,
\* g.user username); 200 on success, 500 otherwise.
FrpApiCreate(t) ==
    /\ pc[t] = "handler" /\ request[t].op = "create"
    /\ \E game_port \in FrpApiGamePorts :
         LET s == request[t].server_id
             free == {p \in FrpsPortRange : p \notin DOMAIN frps_ports}
             pid == Min(FreshPids)
             inst == FrpInst(s, game_port, None, Min(free), token_urlsafe, g_user[t].id)
         IN
         IF s \in DOMAIN instances
         THEN /\ response' = [response EXCEPT ![t] = Respond(500, "already exists")]
              /\ UNCHANGED frpManagerVars
         ELSE IF game_port \in DOMAIN port_allocations
         THEN /\ response' = [response EXCEPT ![t] = Respond(500, "Port already allocated")]
              /\ UNCHANGED frpManagerVars
         ELSE IF free = {}
         THEN /\ response' = [response EXCEPT ![t] = Respond(500, "No available frps ports")]
              /\ UNCHANGED frpManagerVars
         ELSE /\ FreshPids # {}
              /\ port_allocations' = Put(port_allocations, game_port, s)
              /\ frps_ports' = Put(frps_ports, inst.frps_port, s)
              /\ config_dirs' = config_dirs \cup {s}
              /\ procs' = procs \cup
                   {[pid |-> pid, server_id |-> s, ports |-> {inst.frps_port},
                     token |-> inst.frps_token]}
              /\ instances' = Put(instances, s, inst)
              /\ frps_processes' = Put(frps_processes, s, pid)
              /\ redis_instances' = HSet(redis_instances, s, inst)
              /\ redis_port_allocations' = HSet(redis_port_allocations, game_port, s)
              /\ redis_frps_ports' = HSet(redis_frps_ports, inst.frps_port, s)
              /\ response' = [response EXCEPT ![t] = Respond(200, "")]
    /\ pc' = [pc EXCEPT ![t] = "done"]
    /\ UNCHANGED <<frpApiFrame, request, g_user>>

\* DELETE /api/instances/<server_id>: remove_instance(server_id); 200 on
\* success, 404 otherwise.
FrpApiDelete(t) ==
    /\ pc[t] = "handler" /\ request[t].op = "remove"
    /\ LET s == request[t].server_id IN
       IF s \notin DOMAIN instances
       THEN /\ response' = [response EXCEPT ![t] = Respond(404, "Instance not found")]
            /\ UNCHANGED frpManagerVars
       ELSE LET inst == instances[s]
                ports == <<inst.tunnel_game_port, inst.tunnel_query_port>>
                frps == <<inst.frps_port>>
            IN
            /\ instances' = Del(instances, s)
            /\ port_allocations' = ReleaseFrom(port_allocations, ports)
            /\ redis_port_allocations' =
                 HDelAll(redis_port_allocations, ReleasedBy(port_allocations, ports))
            /\ frps_ports' = ReleaseFrom(frps_ports, frps)
            /\ redis_frps_ports' = HDelAll(redis_frps_ports, ReleasedBy(frps_ports, frps))
            /\ frps_processes' = Del(frps_processes, s)
            /\ procs' = IF s \in DOMAIN frps_processes
                        THEN {p \in procs : p.pid # frps_processes[s]}
                        ELSE procs
            /\ redis_instances' = HDel(redis_instances, s)
            /\ config_dirs' = config_dirs \ {s}
            /\ response' = [response EXCEPT ![t] = Respond(200, "")]
    /\ pc' = [pc EXCEPT ![t] = "done"]
    /\ UNCHANGED <<frpApiFrame, request, g_user>>

\* GET /api/instances/<server_id>/client-config: 404 without the instance.
FrpApiClientConfig(t) ==
    /\ pc[t] = "handler" /\ request[t].op = "client_config"
    /\ LET s == request[t].server_id IN
       response' = [response EXCEPT ![t] =
                      IF s \in DOMAIN instances
                      THEN [Respond(200, "") EXCEPT
                              !.config = <<FrpClientConfig(instances[s])>>]
                      ELSE Respond(404, "Instance not found")]
    /\ pc' = [pc EXCEPT ![t] = "done"]
    /\ UNCHANGED <<frpApiFrame, frpManagerVars, request, g_user>>

FrpApiInit ==
    /\ manager = "frp"
    /\ redis \in BOOLEAN
    /\ LEGACY_AUTH_ENABLED \in BOOLEAN
    /\ instances = EmptyMap
    /\ port_allocations = EmptyMap
    /\ frps_ports = EmptyMap
    /\ frps_processes = EmptyMap
    /\ lock = NoThread
    /\ redis_port_allocations = EmptyMap
    /\ redis_frps_ports = EmptyMap
    /\ redis_instances = EmptyMap
    /\ config_dirs = {}
    /\ faults = 0
    /\ procs = {}
    /\ pc = [t \in Threads |-> "idle"]
    /\ call = [t \in Threads |-> NoCall]
    /\ loc = [t \in Threads |-> NoLocals]
    /\ result = [t \in Threads |-> NoResult]
    /\ pre = NoSnapshot
    /\ lastCall = NoLastCall
    /\ liveCreates = [s \in ServerIds |-> 0]
    /\ request = [t \in Threads |-> NoRequest]
    /\ g_user = [t \in Threads |-> NoUser]
    /\ response = [t \in Threads |-> NoResponse]
    /\ shutdown = NoShutdown
    /\ AgentIdle

\* One step of the request of thread t.
FrpRequest(t) ==
    \/ Receive(t)
    \/ FrpAuthenticate(t)
    \/ FrpApiCreate(t)
    \/ FrpApiDelete(t)
    \/ FrpApiClientConfig(t)
    \/ Finish(t)

FrpApiNext == \E t \in Threads : FrpRequest(t)

FrpApiSpec == FrpApiInit /\ [][FrpApiNext]_vars

\* ============================================== shutdown_all_instances
\* RatholeInstanceManager.shutdown_all_instances, called by thread 1: the keys
\* of the instance map are listed once, remove_instance is called on each (a
\* call takes and gives back the lock by itself), and the keys the map holds at
\* the end are reported as remaining.  Thread 1 fills the registry before the
\* call; thread 2 removes instances at any time.  The model visits the listed
\* keys in any order.
Shutdowner == 1

httpVars == <<LEGACY_AUTH_ENABLED, request, g_user, response, agentVars>>

\* `for server_id in list(self.instances.keys())`: the keys are listed.
ShutdownStart ==
    /\ shutdown.phase = "none"
    /\ pc[Shutdowner] = "idle"
    /\ shutdown' = [NoShutdown EXCEPT !.phase = "loop",
                                      !.start = DOMAIN instances,
                                      !.todo = DOMAIN instances]
    /\ UNCHANGED <<faults, httpVars, manager, redis, registry, lock, config_dirs, procs,
                   pc, call, loc, result, pre, lastCall, liveCreates>>

\* `res = self.remove_instance(server_id)` for the next listed key: the call
\* enters `with self.lock:`.
ShutdownRemoveNext ==
    /\ shutdown.phase = "loop"
    /\ pc[Shutdowner] = "idle"
    /\ lock = NoThread
    /\ \E s \in shutdown.todo :
         /\ shutdown' = [shutdown EXCEPT !.todo = @ \ {s}]
         /\ call' = [call EXCEPT ![Shutdowner] =
                      [NoCall EXCEPT !.op = "remove", !.server_id = s]]
    /\ lock' = Shutdowner
    /\ pre' = Snapshot
    /\ pc' = [pc EXCEPT ![Shutdowner] = "r_check"]
    /\ UNCHANGED <<faults, httpVars, manager, redis, registry, config_dirs, procs, loc,
                   result, lastCall, liveCreates>>

\* remove_instance returns (the lock is given back);
\* `if res.get('status') == 'success': removed.append(server_id)`.
ShutdownCollect ==
    /\ shutdown.phase = "loop"
    /\ pc[Shutdowner] = "ret"
    /\ lock = Shutdowner
    /\ lock' = NoThread
    /\ shutdown' = IF result[Shutdowner].status = "success"
                   THEN [shutdown EXCEPT !.removed = @ \cup {call[Shutdowner].server_id}]
                   ELSE shutdown
    /\ lastCall' = IF result[Shutdowner].status = "success"
                   THEN call[Shutdowner].server_id ELSE NoLastCall
    /\ liveCreates' =
         IF call[Shutdowner].server_id \notin DOMAIN instances
         THEN [liveCreates EXCEPT ![call[Shutdowner].server_id] = 0]
         ELSE liveCreates
    /\ pre' = NoSnapshot
    /\ pc' = [pc EXCEPT ![Shutdowner] = "idle"]
    /\ call' = [call EXCEPT ![Shutdowner] = NoCall]
    /\ loc' = [loc EXCEPT ![Shutdowner] = NoLocals]
    /\ result' = [result EXCEPT ![Shutdowner] = NoResult]
    /\ UNCHANGED <<faults, httpVars, manager, redis, registry, config_dirs, procs>>

\* `return {'status': 'success', 'removed': removed,
\*          'remaining': list(self.instances.keys())}`.
ShutdownReturn ==
    /\ shutdown.phase = "loop"
    /\ pc[Shutdowner] = "idle"
    /\ shutdown.todo = {}
    /\ shutdown' = [shutdown EXCEPT !.phase = "returned",
                                    !.remaining = DOMAIN instances]
    /\ UNCHANGED <<faults, httpVars, manager, redis, registry, lock, config_dirs, procs,
                   pc, call, loc, result, pre, lastCall, liveCreates>>

\* The calls thread 1 makes before shutdown_all_instances: creates.
FillRegistry ==
    /\ shutdown.phase = "none"
    /\ \/ Invoke(Shutdowner)
       \/ AcquireCreate(Shutdowner)
       \/ RatholeCreate(Shutdowner)
       \/ Release(Shutdowner)

\* The remove calls of the other threads.
OtherRemoves ==
    \E t \in Threads \ {Shutdowner} :
       \/ Invoke(t)
       \/ AcquireRemove(t)
       \/ RatholeRemove(t)
       \/ Release(t)

ShutdownInit == Init /\ manager = "rathole"

ShutdownNext ==
    \/ FillRegistry
    \/ OtherRemoves
    \/ ShutdownStart
    \/ ShutdownRemoveNext
    \/ shutdown.phase = "loop" /\ RatholeRemove(Shutdowner)
    \/ ShutdownCollect
    \/ ShutdownReturn
    \/ ProcessExits

ShutdownSpec == ShutdownInit /\ [][ShutdownNext]_vars

\* ================================================================ host agent
\* host-agent/agent.py: the functions that start and stop the tunnel client of
\* a game server.  Request threads of the agent call them without a lock; a
\* statement group between two effects another thread can see is one step.
\* The tunnel manager is seen through its answers: it creates an instance only
\* for an id it has none for, and any request to it may fail.  The file
\* operations and Popen may raise, at most MaxFaults times in a behaviour.
AgentOps == {"start", "start_with_config", "stop", "prepare"}

ClientPids == 1..MaxClientPid

\* The request threads of the agent that are busy with the tunnel client.
NAgentThreads == 2
AgentThreads == 1..NAgentThreads

\* The game servers of the host whose tunnel client is started and stopped.
AgentIds == {"s1"}

\* The pid the operating system gives the next client process.
FreshClientPids ==
    ClientPids \ ({p.pid : p \in frpc_procs}
                  \cup {frp_clients[s].process : s \in DOMAIN frp_clients}
                  \cup {agent[t].process : t \in Threads})

\* What no function of the agent touches.
agentFrame == <<LEGACY_AUTH_ENABLED, request, g_user, response, shutdown, manager, redis,
                registry, lock, config_dirs, procs, pc, call, loc, result, pre,
                lastCall, liveCreates>>

\* The tuples create_tunnel_instance(server_id, ...) may return: (True,
\* frps_port, frps_token) on a 200 with status success, which the manager gives
\* only for an id it has no instance for; (False, None, None) otherwise.
TunnelAnswers(server_id) ==
    {<<FALSE, None, NoSecret>>}
    \cup (IF server_id \notin tunnels
          THEN {<<TRUE, FRPS_PORT_RANGE_START, token_urlsafe>>}
          ELSE {})

\* Python's truth value of a tuple: true unless it is empty.
Truthy(tuple) == tuple # <<>>

\* The function returns value; the call is over.
Returned(t, value) == [agent EXCEPT ![t].pc = "a_ret", ![t].returned = value]

\* The inner stop_rathole_client ends with `value`: start_rathole_client_with_config
\* ignores it and goes on, stop_rathole_client returns it.
StopEnds(t, value) ==
    IF agent[t].op = "start_with_config"
    THEN [agent EXCEPT ![t].pc = "sw_spawn", ![t].process = None]
    ELSE Returned(t, value)

\* A request thread of the agent calls one of the functions.
AgentCall(t) ==
    /\ agent[t].pc = "idle"
    /\ \E op \in AgentOps, s \in AgentIds :
         agent' = [agent EXCEPT ![t] =
                     [NoAgentCall EXCEPT
                        !.op = op, !.server_id = s,
                        !.pc = CASE op = "start" -> "as_create"
                                 [] op = "prepare" -> "p_create"
                                 [] OTHER -> "st_check"]]
    /\ UNCHANGED <<agentFrame, faults, frp_clients, frpc_procs, client_files, tunnels>>

\* create_tunnel_instance: start_rathole_client unpacks the tuple and tests
\* `if not success`; prepare_rathole_client_config tests `if not <tuple>`.
AgentCreateTunnel(t) ==
    /\ agent[t].pc \in {"as_create", "p_create"}
    /\ \E answer \in TunnelAnswers(agent[t].server_id) :
         /\ tunnels' = IF answer[1] THEN tunnels \cup {agent[t].server_id} ELSE tunnels
         /\ agent' =
              IF agent[t].op = "start"
              THEN IF ~answer[1]
                   THEN [Returned(t, "False") EXCEPT ![t].tunnel = answer]
                   ELSE [agent EXCEPT ![t].pc = "as_config", ![t].tunnel = answer]
              ELSE IF ~Truthy(answer)
                   THEN [Returned(t, "None") EXCEPT ![t].tunnel = answer]
                   ELSE [agent EXCEPT ![t].pc = "p_write", ![t].tunnel = answer]
    /\ UNCHANGED <<agentFrame, faults, frp_clients, frpc_procs, client_files>>

\* os.makedirs, generate_rathole_client_config and the write of client.toml;
\* an exception is caught by the function's except clause.
AgentWriteConfig(t) ==
    /\ agent[t].pc \in {"as_config", "p_write"}
    /\ \/ /\ client_files' = client_files \cup {agent[t].server_id}
          /\ agent' = IF agent[t].op = "start"
                      THEN [agent EXCEPT ![t].pc = "as_spawn"]
                      ELSE Returned(t, "cfg_path")
          /\ UNCHANGED faults
       \/ /\ faults < MaxFaults
          /\ faults' = faults + 1
          /\ agent' = Returned(t, IF agent[t].op = "start" THEN "False" ELSE "None")
          /\ UNCHANGED client_files
    /\ UNCHANGED <<agentFrame, frp_clients, frpc_procs, tunnels>>

\* The log file is opened, Popen starts the client and frp_clients[server_id]
\* is assigned the new process info; an exception makes the function return
\* False.
AgentSpawn(t) ==
    /\ agent[t].pc \in {"as_spawn", "sw_spawn"}
    /\ \/ /\ FreshClientPids # {}
          /\ LET pid == Min(FreshClientPids) IN
             /\ frpc_procs' = frpc_procs \cup
                  {[pid |-> pid, server_id |-> agent[t].server_id]}
             /\ frp_clients' = Put(frp_clients, agent[t].server_id,
                                   [process |-> pid, config_path |-> agent[t].server_id])
             /\ agent' = [Returned(t, "True") EXCEPT ![t].process = pid]
          /\ UNCHANGED faults
       \/ /\ faults < MaxFaults
          /\ faults' = faults + 1
          /\ agent' = Returned(t, "False")
          /\ UNCHANGED <<frp_clients, frpc_procs>>
    /\ UNCHANGED <<agentFrame, client_files, tunnels>>

\* stop_rathole_client: `if server_id not in frp_clients: return True`, else
\* the tracked process is looked up.
AgentStopCheck(t) ==
    /\ agent[t].pc = "st_check"
    /\ agent' = IF agent[t].server_id \notin DOMAIN frp_clients
                THEN StopEnds(t, "True")
                ELSE [agent EXCEPT ![t].pc = "st_term",
                                   ![t].process = frp_clients[agent[t].server_id].process]
    /\ UNCHANGED <<agentFrame, faults, frp_clients, frpc_procs, client_files, tunnels>>

\* A running process is terminated; after the wait of 10 s it is killed.
AgentStopTerminate(t) ==
    /\ agent[t].pc = "st_term"
    /\ frpc_procs' = {p \in frpc_procs : p.pid # agent[t].process}
    /\ agent' = [agent EXCEPT ![t].pc = "st_del"]
    /\ UNCHANGED <<agentFrame, faults, frp_clients, client_files, tunnels>>

\* `del frp_clients[server_id]`: a KeyError when another thread has deleted
\* the entry.
AgentStopUntrack(t) ==
    /\ agent[t].pc = "st_del"
    /\ IF agent[t].server_id \in DOMAIN frp_clients
       THEN /\ frp_clients' = Del(frp_clients, agent[t].server_id)
            /\ agent' = [agent EXCEPT ![t].pc = "st_file"]
       ELSE /\ agent' = StopEnds(t, "False")
            /\ UNCHANGED frp_clients
    /\ UNCHANGED <<agentFrame, faults, frpc_procs, client_files, tunnels>>

\* The config file is removed when it exists, then remove_tunnel_instance asks
\* the manager to delete the instance (a failure there is only printed).
AgentStopCleanup(t) ==
    /\ agent[t].pc = "st_file"
    /\ \/ /\ client_files' = client_files \ {agent[t].server_id}
          /\ \E removed \in BOOLEAN :
               tunnels' = IF removed THEN tunnels \ {agent[t].server_id} ELSE tunnels
          /\ agent' = StopEnds(t, "True")
          /\ UNCHANGED faults
       \/ /\ agent[t].server_id \in client_files
          /\ faults < MaxFaults
          /\ faults' = faults + 1
          /\ agent' = StopEnds(t, "False")
          /\ UNCHANGED <<client_files, tunnels>>
    /\ UNCHANGED <<agentFrame, frp_clients, frpc_procs>>

\* The caller has the return value.
AgentReturn(t) ==
    /\ agent[t].pc = "a_ret"
    /\ agent' = [agent EXCEPT ![t] = NoAgentCall]
    /\ UNCHANGED <<agentFrame, faults, frp_clients, frpc_procs, client_files, tunnels>>

\* A client process exits on its own.
ClientExits ==
    /\ \E p \in frpc_procs : frpc_procs' = frpc_procs \ {p}
    /\ UNCHANGED <<agentFrame, faults, frp_clients, client_files, tunnels, agent>>

AgentStep(t) ==
    \/ AgentCall(t)
    \/ AgentCreateTunnel(t)
    \/ AgentWriteConfig(t)
    \/ AgentSpawn(t)
    \/ AgentStopCheck(t)
    \/ AgentStopTerminate(t)
    \/ AgentStopUntrack(t)
    \/ AgentStopCleanup(t)
    \/ AgentReturn(t)

AgentInit == Init /\ manager = "frp" /\ redis

AgentNext ==
    \/ \E t \in AgentThreads : AgentStep(t)
    \/ ClientExits

AgentSpec == AgentInit /\ [][AgentNext]_vars

\* ======================================================== fair scheduling
\* Both managers with shutdown_all_instances (Rathole only) beside the calls of
\* the request threads, with a connected store.  Thread 1 creates instances
\* and calls shutdown_all_instances (it makes no other call while that runs);
\* the other threads remove one instance.
LiveGamePort == 7777

LiveRemoved == "s1"

LiveCalls(t) ==
    \/ (t = Shutdowner => shutdown.phase # "loop") /\ Invoke(t)
    \/ (t = Shutdowner => shutdown.phase # "loop") /\ Release(t)
    \/ /\ t = Shutdowner
       /\ AcquireCreate(t)
       /\ call'[t].game_port = LiveGamePort
       /\ call'[t].query_port = None
    \/ /\ t # Shutdowner
       /\ AcquireRemove(t)
       /\ call'[t].server_id = LiveRemoved

\* A step inside `with self.lock:`.
Critical(t) ==
    \/ RatholeCreate(t)
    \/ RatholeRemove(t)
    \/ FrpCreate(t)
    \/ FrpRemove(t)

LiveShutdown ==
    \/ manager = "rathole" /\ shutdown.phase = "none" /\ ShutdownStart
    \/ ShutdownRemoveNext
    \/ ShutdownCollect
    \/ ShutdownReturn

LiveNext ==
    \/ \E t \in Threads : LiveCalls(t)
    \/ \E t \in Threads : Critical(t)
    \/ LiveShutdown
    \/ ProcessExits

\* The scheduler runs every thread that can take a step, and a thread that
\* waits for the lock gets it when it is free often enough.  Nothing obliges a
\* client to make a call or a relay process to exit.
Fairness ==
    /\ \A t \in Threads : WF_vars(Critical(t))
    /\ \A t \in Threads : WF_vars(LiveCalls(t) /\ pc[t] = "ret")
    /\ \A t \in Threads : SF_vars(LiveCalls(t) /\ pc[t] = "lock")
    /\ SF_vars(ShutdownRemoveNext)
    /\ WF_vars(ShutdownCollect)
    /\ WF_vars(ShutdownReturn)

LiveInit == Init /\ redis

LiveSpec == LiveInit /\ [][LiveNext]_vars /\ Fairness

\* =================================================================== claims
\* A thread is inside `with self.lock:`.
InCritical(t) == pc[t] \notin {"idle", "lock"}

\* No create or remove is in progress.
Quiescent == \A t \in Threads : ~InCritical(t)

\* The ports a RatholeInstanceManager record holds.
RecordPorts(info) ==
    {info.rathole_port, info.tunnel_game_tcp_port, info.tunnel_game_udp_port,
     info.tunnel_query_port} \ {None}

\* The ports a create call has been assigned so far.
CallPorts(t) ==
    {loc[t].rathole_port, loc[t].tunnel_game_port, loc[t].tunnel_query_port} \ {None}

Rathole == manager = "rathole"

Returning(t, op) == pc[t] = "ret" /\ call[t].op = op

\* C1: no two instances of the instance map record the same port (control,
\* tunnel game or tunnel query), whatever the interleaving of create and remove
\* calls and whatever their results.
C1_NoPortRecordedTwice ==
    Rathole =>
      \A a, b \in DOMAIN instances :
        a # b => RecordPorts(instances[a]) \cap RecordPorts(instances[b]) = {}

\* C2: with no call in progress, every entry port -> server_id of the allocation
\* index belongs to an instance that is in the instance map under that id.
C2_NoLeakedAllocation ==
    (Rathole /\ Quiescent) =>
      \A port \in DOMAIN port_allocations :
        /\ port_allocations[port] \in DOMAIN instances
        /\ port \in RecordPorts(instances[port_allocations[port]])

\* C3: with no call in progress, every port an instance in the map records is in
\* the allocation index under that instance's id.
C3_RecordedPortsIndexed ==
    (Rathole /\ Quiescent) =>
      \A s \in DOMAIN instances : \A port \in RecordPorts(instances[s]) :
        port \in DOMAIN port_allocations /\ port_allocations[port] = s

ExhaustionMessages ==
    {"No available Rathole control ports", "No available tunnel game ports",
     "No available tunnel query ports"}

\* C4: a create that fails because a range is exhausted returns with the
\* allocation index, and its persisted mirror, as they were before the call.
C4_ExhaustionRollsBack ==
    \A t \in Threads :
      (Rathole /\ Returning(t, "create") /\ result[t].message \in ExhaustionMessages)
        => /\ port_allocations = pre.port_allocations
           /\ redis_port_allocations = pre.redis_port_allocations

\* C5: a create that fails at the spawn, or at a later step before the instance
\* is recorded, returns with none of the ports it was assigned in the index and
\* with its id absent from the instance map (both managers).
C5_SpawnFailureRollsBack ==
    \A t \in Threads :
      (Returning(t, "create") /\ result[t].message \in {"spawn raised", "pid file raised"})
        => /\ CallPorts(t) \cap DOMAIN port_allocations = {}
           /\ loc[t].frps_port \notin DOMAIN frps_ports
           /\ (manager = "frp" => call[t].game_port \notin DOMAIN port_allocations)
           /\ call[t].server_id \notin DOMAIN instances

\* C6: when the relay process has exited at the liveness probe, create returns
\* an error that carries the log, every port allocated in the call is out of
\* the index (and of its persisted mirror), and the id is not in the map.
C6_ExitedAtProbe ==
    [][\A t \in Threads :
         (pc[t] = "c_probe" /\ loc[t].pid \notin LivePids /\ pc'[t] # "c_probe")
           => /\ pc'[t] = "ret"
              /\ result'[t].status = "error"
              /\ result'[t].log
              /\ CallPorts(t) \cap DOMAIN port_allocations' = {}
              /\ CallPorts(t) \cap DOMAIN redis_port_allocations' = {}
              /\ call[t].server_id \notin DOMAIN instances'
              /\ lock' = t]_vars

C6_Witness ==
    \E t \in Threads :
      /\ Rathole /\ Returning(t, "create")
      /\ result[t].message = "exited immediately"
      /\ loc[t].tunnel_query_port # None
      /\ redis

\* C7: create_instance on an id that is in the instance map returns an error and
\* changes nothing: instance map, allocation index, tracked processes and
\* persisted store are as before the call, and no process is spawned (both
\* managers).
C7_DuplicateCreateChangesNothing ==
    \A t \in Threads :
      (Returning(t, "create") /\ call[t].server_id \in DOMAIN pre.instances)
        => /\ result[t] = Error("already exists")
           /\ Snapshot = pre
           /\ loc[t] = NoLocals

C7_Witness ==
    \E t \in Threads :
      /\ Returning(t, "create") /\ result[t].message = "already exists"
      /\ redis /\ DOMAIN port_allocations # {}

\* The creates of id s that have succeeded since its last successful remove,
\* one that is about to return included.
CreatesStanding(s) ==
    liveCreates[s] +
    Cardinality({t \in Threads : /\ Returning(t, "create")
                                 /\ call[t].server_id = s
                                 /\ result[t].status = "success"})

\* C8: at most one thread is between lock acquisition and release, every step
\* of create and remove runs with the lock held by its thread, and of the
\* create calls of one id at most one succeeds (until the id is removed).
C8_MutualExclusion ==
    /\ \A t \in Threads : InCritical(t) <=> lock = t
    /\ \A a, b \in Threads : (InCritical(a) /\ InCritical(b)) => a = b
    /\ \A s \in ServerIds : CreatesStanding(s) <= 1

C8_Witness ==
    \E a, b \in Threads :
      /\ a # b /\ pc[b] = "lock"
      /\ Returning(a, "create") /\ result[a].status = "success"
      /\ liveCreates[call[a].server_id] = 0

\* Whether a sequence holds no element twice.
NoDuplicates(seq) ==
    \A i, j \in 1..Len(seq) : seq[i] = seq[j] => i = j

\* The index entries a remove of the record `info` is due to release.
DueForRelease(info) ==
    IF Rathole
    THEN RecordPorts(info) \cap DOMAIN pre.port_allocations
    ELSE (({info.tunnel_game_port, info.tunnel_query_port} \ {None})
            \cap DOMAIN pre.port_allocations)
         \cup ({info.frps_port} \cap DOMAIN pre.frps_ports)

\* C9: remove_instance on an absent id returns not found and leaves instance
\* map, index and persisted store unchanged; a remove releases each port of the
\* instance once; and the second of two consecutive removes of an id returns
\* not found, releases nothing and does not raise (both managers).
C9_RemoveTwice ==
    \A t \in Threads :
      Returning(t, "remove") =>
        /\ call[t].server_id \notin DOMAIN pre.instances
             => /\ result[t] = Error("not found")
                /\ Snapshot = pre
                /\ loc[t].released = <<>>
        /\ call[t].server_id \in DOMAIN pre.instances
             => /\ NoDuplicates(loc[t].released)
                /\ {loc[t].released[i] : i \in 1..Len(loc[t].released)}
                     = DueForRelease(pre.instances[call[t].server_id])
        /\ lastCall = call[t].server_id
             => /\ result[t] = Error("not found")
                /\ loc[t].released = <<>>

C9_Witness ==
    \E t \in Threads :
      /\ Returning(t, "remove")
      /\ lastCall = call[t].server_id
      /\ DOMAIN instances # {}

\* C10: no port that a live relay process of an instance in the map is bound to
\* is absent from the allocation index.
C10_NoFreePortOfLiveProcess ==
    Rathole =>
      \A s \in DOMAIN instances : \A p \in procs :
        p.pid = instances[s].pid => p.ports \subseteq DOMAIN port_allocations

\* C11: FrpManager.remove_instance stops the frps process before it releases
\* the instance's ports: in no state is the control port a live tracked frps
\* process is bound to absent from frps_ports.
C11_FrpStopsBeforeRelease ==
    manager = "frp" =>
      \A s \in DOMAIN frps_processes : \A p \in procs :
        p.pid = frps_processes[s] => p.ports \subseteq DOMAIN frps_ports

\* The relay process remove_instance found for the id of its call (None
\* without one).
TargetPid(t) ==
    LET s == call[t].server_id IN
    IF Rathole
    THEN (IF s \in DOMAIN pre.instances THEN pre.instances[s].pid ELSE None)
    ELSE (IF s \in DOMAIN pre.frps_processes THEN pre.frps_processes[s] ELSE None)

\* C12: when remove_instance returns success, the relay process of the
\* instance is not alive and nothing tracks a process for the id any more, also
\* when the process outlived the graceful signal and was force-killed (both
\* managers).
C12_RemovedProcessIsDead ==
    \A t \in Threads :
      (Returning(t, "remove") /\ result[t].status = "success")
        => /\ TargetPid(t) \notin LivePids
           /\ call[t].server_id \notin DOMAIN instances
           /\ call[t].server_id \notin DOMAIN frps_processes

C12_Witness ==
    \E t \in Threads :
      /\ Returning(t, "remove") /\ result[t].status = "success"
      /\ loc[t].forced
      /\ TargetPid(t) # None

\* C13: when no create or remove is in progress, every live relay process the
\* registry spawned is the process of an instance of the instance map; a create
\* that returned an error left none behind.
C13_NoOrphanProcess ==
    (Rathole /\ Quiescent) =>
      \A p \in procs : \E s \in DOMAIN instances : instances[s].pid = p.pid

\* The ports of [lo, hi] that are not in the allocation index.
FreeOf(lo, hi) == {p \in lo..hi : p \notin DOMAIN port_allocations}

\* C14: RatholeInstanceManager allocates lowest free first over the inclusive
\* ranges: a create gets as control port the lowest port of
\* [RATHOLE_PORT_START, RATHOLE_PORT_END] not in the index and as tunnel port
\* the lowest port of [GAME_PORT_START, GAME_PORT_END] not in the index, and it
\* fails for want of a port only when the range has none; a port given back by
\* a remove is handed out again.
C14_LowestFreeFirst ==
    [][\A t \in Threads :
         /\ (pc[t] = "c_control" /\ pc'[t] # "c_control")
              => LET free == FreeOf(RATHOLE_PORT_START, RATHOLE_PORT_END) IN
                 IF free = {}
                 THEN result'[t] = Error("No available Rathole control ports")
                 ELSE /\ loc'[t].rathole_port = Min(free)
                      /\ pc'[t] = "c_game"
         /\ (pc[t] = "c_game" /\ pc'[t] # "c_game")
              => LET free == FreeOf(GAME_PORT_START, GAME_PORT_END) IN
                 IF free = {}
                 THEN result'[t] = Error("No available tunnel game ports")
                 ELSE /\ loc'[t].tunnel_game_port = Min(free)
                      /\ pc'[t] = "c_query"
         /\ (pc[t] = "c_query" /\ pc'[t] # "c_query" /\ call[t].query_port # None)
              => LET free == FreeOf(GAME_PORT_START, GAME_PORT_END) IN
                 IF free = {}
                 THEN result'[t] = Error("No available tunnel query ports")
                 ELSE loc'[t].tunnel_query_port = Min(free)]_vars

C14_Witness ==
    \E t \in Threads :
      /\ Returning(t, "create") /\ result[t].status = "success"
      /\ loc[t].rathole_port = RATHOLE_PORT_START
      /\ loc[t].tunnel_game_port = GAME_PORT_START
      /\ \E s \in DOMAIN instances :
           /\ s # call[t].server_id
           /\ instances[s].rathole_port = RATHOLE_PORT_START + 1
           /\ instances[s].tunnel_game_tcp_port = GAME_PORT_START + 1

\* C15: FrpManager gives distinct instances distinct frps ports and reports
\* 'No available frps ports' only when every port of
\* [FRPS_PORT_RANGE_START, FRPS_PORT_RANGE_END], both ends included, is held.
C15_FrpsRangeInclusive ==
    manager = "frp" =>
      /\ \A a, b \in DOMAIN instances :
           a # b => instances[a].frps_port # instances[b].frps_port
      /\ \A t \in Threads :
           (Returning(t, "create") /\ result[t].message = "No available frps ports")
             => \A p \in FRPS_PORT_RANGE_START..FRPS_PORT_RANGE_END :
                  p \in DOMAIN frps_ports

\* The request of thread t is one of the <server_id> routes, made by an identity
\* that is neither admin nor service account nor legacy, for an instance another
\* identity owns.
ForeignRequest(t) ==
    /\ pc[t] \in {"handler", "call"}
    /\ request[t].op \in {"remove", "get", "client_config"}
    /\ ~is_admin_or_service(g_user[t])
    /\ request[t].server_id \in DOMAIN instances
    /\ instances[request[t].server_id].owner_id # g_user[t].id

\* C16: whatever the interleaving of the requests, the step that answers a
\* remove, get or client-config request of a non-privileged identity for an
\* instance whose owner_id is not the caller's id answers 403, hands out neither
\* record nor client config, and leaves the instance in the map.
C16_ForeignInstanceUntouched ==
    [][\A t \in Threads :
         (ForeignRequest(t) /\ pc'[t] = "done") =>
           /\ response'[t].code = 403
           /\ response'[t].instance = <<>>
           /\ response'[t].config = <<>>
           /\ request[t].server_id \in DOMAIN instances']_vars

\* The records of the instance map an identity is to see in a listing.
VisibleTo(user) ==
    {instances[s] : s \in {x \in DOMAIN instances :
                             \/ is_admin_or_service(user)
                             \/ instances[x].owner_id = user.id}}

\* C17: the list request answers 200 with exactly the existing instances whose
\* owner_id is the caller's id when the caller is not privileged, and with all
\* existing instances when the caller is admin or service account.
C17_ListIsOwnershipScoped ==
    [][\A t \in Threads :
         (pc[t] = "handler" /\ request[t].op = "list" /\ pc'[t] = "done") =>
           /\ response'[t].code = 200
           /\ response'[t].instances = VisibleTo(g_user[t])]_vars

\* A header or the JSON body of the request carries the configured API token.
PresentsApiToken(req) ==
    \/ req.authorization = <<"Bearer", API_TOKEN>>
    \/ req.x_api_token = API_TOKEN
    \/ req.body_token = API_TOKEN

\* C18: the legacy path is evaluated before token validation, and the decorator
\* makes the legacy identity g.user of a request exactly when
\* LEGACY_AUTH_ENABLED is true and a header or the JSON body of the request
\* carries the API token; with the flag false no request becomes legacy.
C18_LegacyExactlyOnSharedSecret ==
    [][\A t \in Threads :
         (pc[t] = "auth" /\ pc'[t] # "auth") =>
           (g_user'[t] = LegacyUser <=>
              (LEGACY_AUTH_ENABLED /\ PresentsApiToken(request[t])))]_vars

\* The auth service has no identity for the Authorization header of the request.
TokenRejected(req) ==
    \/ req.authorization = NoHeader
    \/ AuthService(req.authorization[2]) = NoUser

\* The request has no valid identity: no legacy match, token rejected or missing.
NoValidIdentity(req) ==
    /\ ~(LEGACY_AUTH_ENABLED /\ PresentsApiToken(req))
    /\ TokenRejected(req)

\* The identity the auth service gave the request has none of the roles the
\* route asks for.
LacksRole(req, op) ==
    /\ ~TokenRejected(req)
    /\ RolesRequired(op) # {}
    /\ AuthService(req.authorization[2]).roles \cap RolesRequired(op) = {}

\* Thread t is answered with `code` and the manager's state stays as it is.
Rejected(t, code) ==
    /\ pc'[t] = "done"
    /\ response'[t].code = code
    /\ response'[t].instance = <<>>
    /\ response'[t].config = <<>>
    /\ UNCHANGED managerVars

C20_OwnerNeverChanges ==
    [][/\ \A t \in Threads :
            (pc[t] = "handler" /\ request[t].op = "create" /\ pc'[t] = "done"
              /\ response'[t].code = 200)
            => /\ request[t].server_id \in DOMAIN instances'
               /\ instances'[request[t].server_id].owner_id = g_user[t].id
               /\ instances'[request[t].server_id].owner_username = g_user[t].username
       /\ \A s \in DOMAIN instances \cap DOMAIN instances' :
            /\ instances'[s].owner_id = instances[s].owner_id
            /\ instances'[s].owner_username = instances[s].owner_username]_vars

\* The step is a restart of the manager: no request is in flight before or
\* after it.
Restarted == \A t \in Threads : pc[t] = "idle" /\ pc'[t] = "idle"

\* A record without the two fields a restart may set anew.
Durable(info) == [info EXCEPT !.is_running = FALSE, !.pid = None]

\* C21: a restart of RatholeInstanceManager with a persistence store leaves the
\* instance map as it was in every field but is_running and pid: the records
\* come from the store, and the directory scan replaces none of them.
C21_RestartKeepsRecords ==
    [][(redis /\ Restarted) =>
         /\ DOMAIN instances' = DOMAIN instances
         /\ \A s \in DOMAIN instances :
              Durable(instances'[s]) = Durable(instances[s])]_vars

\* The record of server_id is one _restore_instances built from the directory.
Recovered(server_id) ==
    /\ server_id \in DOMAIN instances
    /\ instances[server_id].owner_id = NoOwner

\* The ports the relay config of a recovered instance binds, as far as its
\* relay process is there to hold them.
HeldByRecovered(server_id) ==
    UNION {p.ports : p \in {q \in procs : /\ q.server_id = server_id
                                           /\ q.pid = instances[server_id].pid}}

\* C22: without a store, every port the relay config of an instance recovered
\* from its directory binds (control port and tunnel ports) is in the allocation
\* index, and no create after the restart gets a port a recovered instance
\* holds.
C22_RecoveredPortsIndexed ==
    ~redis =>
      /\ \A s \in DOMAIN instances :
           Recovered(s) => HeldByRecovered(s) \subseteq DOMAIN port_allocations
      /\ \A s, r \in DOMAIN instances :
           (Recovered(s) /\ r # s) => HeldByRecovered(s) \cap RecordPorts(instances[r]) = {}

\* The ports a port map holds for server_id.
PortsOf(index, server_id) == {port \in DOMAIN index : index[port] = server_id}

\* C23: when the remove of an instance that a restart rebuilt returns success,
\* no port of the instance is left in the allocation index or in the persisted
\* port hash.
C23_RemoveAfterRestartReleasesAll ==
    [][\A t \in Threads :
         (/\ pc[t] \in {"handler", "call"}
          /\ request[t].op \in {"remove", "admin_remove"}
          /\ Recovered(request[t].server_id)
          /\ pc'[t] = "done" /\ response'[t].code = 200)
         => /\ PortsOf(port_allocations', request[t].server_id) = {}
            /\ PortsOf(redis_port_allocations', request[t].server_id) = {}]_vars

\* C24: with a store and no create or remove in progress, the persisted
\* instance records are the in-memory instance map and the persisted port
\* hashes are the in-memory allocation indexes, whatever calls succeeded or
\* failed before (both managers).
C24_StoreMirrorsMemory ==
    (redis /\ Quiescent) =>
      /\ redis_instances = instances
      /\ redis_port_allocations = port_allocations
      /\ redis_frps_ports = frps_ports

\* The port a registry without a store takes from [lo, hi]: the lowest one that
\* is not in the in-memory index.
InMemoryScan(lo, hi) ==
    IF FreeOf(lo, hi) = {} THEN None ELSE Min(FreeOf(lo, hi))

\* C25: a registry whose store was unavailable at startup writes nothing to a
\* store, and a registry with a store that started empty behaves as it does:
\* the one place where a call reads the store, the scan for a free port, picks
\* in every state the port the in-memory scan picks, so results, instance map
\* and allocation index of the two run alike.
C25_StoreDoesNotSteer ==
    /\ allocate_rathole_port = InMemoryScan(RATHOLE_PORT_START, RATHOLE_PORT_END)
    /\ allocate_game_port = InMemoryScan(GAME_PORT_START, GAME_PORT_END)
    /\ ~redis => /\ redis_instances = EmptyMap
                 /\ redis_port_allocations = EmptyMap
                 /\ redis_frps_ports = EmptyMap

\* In in-memory mode a create succeeds next to an instance that holds the first
\* ports of both ranges.
C25_Witness ==
    \E t \in Threads :
      /\ ~redis /\ Rathole
      /\ Returning(t, "create") /\ result[t].status = "success"
      /\ loc[t].rathole_port = RATHOLE_PORT_START + 1
      /\ loc[t].tunnel_game_port = GAME_PORT_START + 1
      /\ redis_port_allocations = EmptyMap

\* A client config parsed for its ports: the control port, the local ports of
\* its services and the remote (public) ports they name.
ParsedPorts(server_id) ==
    IF Rathole
    THEN LET cfg == ClientConfig(instances[server_id]) IN
         [control |-> cfg.remote_addr,
          local |-> {cfg.local_addr[n] : n \in DOMAIN cfg.local_addr},
          remote |-> {}]
    ELSE LET cfg == FrpClientConfig(instances[server_id]) IN
         [control |-> cfg.server_port,
          local |-> {cfg.local_port[n] : n \in DOMAIN cfg.local_port},
          remote |-> {cfg.remote_port[n] : n \in DOMAIN cfg.remote_port}]

\* The ports an instance record holds: what the caller gave and what the
\* registry allocated.
ControlPort(info) == IF Rathole THEN info.rathole_port ELSE info.frps_port

LocalPorts(info) == {info.game_port, info.query_port} \ {None}

PublicPorts(info) ==
    IF Rathole
    THEN {info.tunnel_game_tcp_port, info.tunnel_game_udp_port,
          info.tunnel_query_port} \ {None}
    ELSE {info.tunnel_game_port, info.tunnel_query_port} \ {None}

\* C26: the client config of every instance in the map, parsed for its control
\* port and its service ports, holds exactly the ports the record holds: control
\* port, game port, tunnel game port, and the query ports when a query port was
\* given.
C26_ClientConfigHoldsAllPorts ==
    \A s \in DOMAIN instances :
      LET parsed == ParsedPorts(s) IN
      /\ parsed.control = ControlPort(instances[s])
      /\ parsed.local = LocalPorts(instances[s])
      /\ parsed.remote = PublicPorts(instances[s])

\* C26, amended: when a create returns success, the client config of its
\* instance names the control port the call allocated and, as local ports of
\* its services, the game port and (exactly when one was given) the query port
\* of the call; a FrpManager config names the tunnel ports as remote ports too,
\* a RatholeInstanceManager config names no tunnel port.  The config of any
\* instance in the map is a function of its record.
C26_ClientConfigRoundTrip ==
    /\ \A t \in Threads :
         (Returning(t, "create") /\ result[t].status = "success") =>
           LET parsed == ParsedPorts(call[t].server_id) IN
           /\ parsed.control = (IF Rathole THEN loc[t].rathole_port ELSE loc[t].frps_port)
           /\ parsed.local = {call[t].game_port, call[t].query_port} \ {None}
           /\ parsed.remote = (IF Rathole THEN {}
                               ELSE {call[t].game_port, call[t].query_port} \ {None})
    /\ \A s \in DOMAIN instances :
         LET parsed == ParsedPorts(s) IN
         /\ parsed.control = ControlPort(instances[s])
         /\ parsed.local = LocalPorts(instances[s])
         /\ parsed.remote = (IF Rathole THEN {} ELSE PublicPorts(instances[s]))

\* A RatholeInstanceManager create with a query port returns success.
C26_Witness ==
    \E t \in Threads :
      /\ Rathole /\ Returning(t, "create") /\ result[t].status = "success"
      /\ call[t].query_port # None
      /\ ParsedPorts(call[t].server_id).local = {call[t].game_port, call[t].query_port}

\* C27: no create_instance or remove_instance ends in an exception: whatever
\* the spawn, the file system or the other threads do, the call returns a
\* success or an error result (both managers).
C27_NoExceptionEscapes ==
    \A t \in Threads :
      pc[t] = "ret" => result[t].status \in {"success", "error"}

\* C28: an id enters the instance map by a successful create of an absent id
\* and leaves it by a successful remove, and by nothing else: a create that
\* fails leaves the map as it was, and a remove that fails leaves the map, the
\* instance's record, its ports in the indexes and its tracked process as they
\* were.
C28_OnlyCreateAndRemoveMove ==
    \A t \in Threads :
      LET s == call[t].server_id
          ok == result[t].status = "success"
      IN
      /\ (Returning(t, "create") /\ ok)
           => /\ s \notin DOMAIN pre.instances
              /\ DOMAIN instances = DOMAIN pre.instances \cup {s}
      /\ (Returning(t, "create") /\ ~ok) => instances = pre.instances
      /\ (Returning(t, "remove") /\ ok)
           => /\ s \in DOMAIN pre.instances
              /\ DOMAIN instances = DOMAIN pre.instances \ {s}
      /\ (Returning(t, "remove") /\ ~ok)
           => /\ instances = pre.instances
              /\ port_allocations = pre.port_allocations
              /\ frps_ports = pre.frps_ports
              /\ frps_processes = pre.frps_processes

\* C29: is_running reflects the liveness of the relay process: whenever no
\* create or remove is in progress, every instance of the Rathole registry
\* whose record says is_running = TRUE has a live relay process under its pid.
C29_IsRunningMeansLive ==
    (Rathole /\ Quiescent)
      => \A s \in DOMAIN instances :
           instances[s].is_running => instances[s].pid \in LivePids

\* The relay process of server_id has been spawned: the Rathole record names
\* its pid; the FrpManager record has none, there the creating call holds the
\* Popen handle or the process is tracked.
Spawned(server_id) ==
    IF Rathole
    THEN instances[server_id].pid # None
    ELSE \/ server_id \in DOMAIN frps_processes
         \/ \E t \in Threads : /\ call[t].op = "create"
                                /\ call[t].server_id = server_id
                                /\ loc[t].pid # None

\* The record of server_id is fully constructed: its port fields are assigned
\* (the query tunnel port when a query port was asked for), each of its ports
\* is in the allocation index under server_id, and its relay process has been
\* spawned.
Constructed(server_id) ==
    LET info == instances[server_id] IN
    IF Rathole
    THEN /\ info.rathole_port # None
         /\ info.tunnel_game_tcp_port # None
         /\ info.tunnel_game_udp_port # None
         /\ info.query_port # None => info.tunnel_query_port # None
         /\ RecordPorts(info) \subseteq PortsOf(port_allocations, server_id)
         /\ Spawned(server_id)
    ELSE /\ info.tunnel_game_port # None
         /\ info.frps_port # None
         /\ info.query_port # None => info.tunnel_query_port # None
         /\ ({info.tunnel_game_port, info.tunnel_query_port} \ {None})
              \subseteq PortsOf(port_allocations, server_id)
         /\ info.frps_port \in PortsOf(frps_ports, server_id)
         /\ Spawned(server_id)

\* C30: a lock-free reader never sees a half-constructed record: every step
\* that makes a server_id visible in the instance map puts there a record
\* whose port fields are all assigned, whose ports are in the allocation index
\* and whose relay process has been spawned.
C30_VisibleMeansConstructed ==
    [][\A s \in ServerIds :
         (s \notin DOMAIN instances /\ s \in DOMAIN instances') => Constructed(s)']_vars

\* A create that asked for a query port has just made its record visible while
\* it still holds the lock and the other threads are outside it.
C30_Witness ==
    \E t \in Threads :
       /\ Returning(t, "create")
       /\ result[t].status = "success"
       /\ call[t].query_port # None
       /\ call[t].server_id \in DOMAIN instances \ DOMAIN pre.instances
       /\ instances[call[t].server_id].tunnel_query_port # None
       /\ \E u \in Threads \ {t} : ~InCritical(u)

\* shutdown_all_instances returns in this step.
ShutdownReturns == shutdown.phase = "loop" /\ shutdown'.phase = "returned"

\* C31: when shutdown_all_instances returns (no create ran beside it), every id
\* the map held when it started is in exactly one of removed and remaining,
\* every id in removed is absent from the instance map and has no port left in
\* the index, and remaining is the set of ids the map then holds.
C31_ShutdownPartitionsStart ==
    [][ShutdownReturns =>
         /\ \A s \in shutdown.start :
              (s \in shutdown'.removed) # (s \in shutdown'.remaining)
         /\ \A s \in shutdown'.removed :
              /\ s \notin DOMAIN instances'
              /\ PortsOf(port_allocations', s) = {}
              /\ PortsOf(redis_port_allocations', s) = {}
         /\ shutdown'.remaining = DOMAIN instances']_vars

\* C32: under fair scheduling every call eventually returns and the lock is
\* eventually free again: a thread that has invoked create_instance or
\* remove_instance comes back to idle, a held lock is released, and a
\* shutdown_all_instances that has started returns.
C32_EveryCallReturns ==
    /\ \A t \in Threads : (pc[t] # "idle") ~> (pc[t] = "idle")
    /\ (lock # NoThread) ~> (lock = NoThread)
    /\ (shutdown.phase = "loop") ~> (shutdown.phase = "returned")

\* shutdown_all_instances has returned with an instance removed, after a call
\* that an exception or an error result ended, and the lock is free.
C32_Witness ==
    /\ shutdown.phase = "returned"
    /\ shutdown.removed # {}
    /\ faults = MaxFaults
    /\ lock = NoThread
    /\ \A t \in Threads : pc[t] = "idle"

\* The secret in the client config get_client_config returns for server_id.
ClientSecret(server_id) ==
    IF Rathole THEN ClientConfig(instances[server_id]).default_token
    ELSE FrpClientConfig(instances[server_id]).token

\* The live relay processes of the instance server_id.
RelaysOf(server_id) ==
    {p \in procs : /\ p.server_id = server_id
                   /\ p.pid = IF Rathole THEN instances[server_id].pid
                             ELSE IF server_id \in DOMAIN frps_processes
                                  THEN frps_processes[server_id] ELSE None}

\* C33: for every instance of the map, the secret of its client config is the
\* secret its relay server was configured with, it is not the legacy token of
\* the control API, and no other instance has the same secret.
C33_SecretPerInstance ==
    \A s \in DOMAIN instances :
       /\ \A p \in RelaysOf(s) : p.token = ClientSecret(s)
       /\ ClientSecret(s) # API_TOKEN
       /\ \A r \in DOMAIN instances \ {s} : ClientSecret(r) # ClientSecret(s)

\* C34: in the FRP control API, the step that answers a delete or client-config
\* request of an authenticated identity that is neither privileged nor legacy,
\* for an instance whose owner_id is not the caller's id, answers 403, hands out
\* no client config and leaves the instance in the map.
C34_FrpForeignInstanceUntouched ==
    [][\A t \in Threads :
         (ForeignRequest(t) /\ g_user[t] # NoUser /\ pc'[t] = "done") =>
           /\ response'[t].code = 403
           /\ response'[t].config = <<>>
           /\ request[t].server_id \in DOMAIN instances']_vars

\* A step in which thread t's call of the agent function op comes to its return.
AgentReturns(t, op) ==
    /\ agent[t].op = op
    /\ agent[t].pc # "a_ret"
    /\ agent'[t].pc = "a_ret"

\* The live client processes that were spawned for server_id.
LiveClients(server_id) == {p \in frpc_procs : p.server_id = server_id}

\* C35: start_rathole_client returns True with server_id recorded in
\* frp_clients together with the client process it spawned when the tunnel
\* instance was created at the manager; when the creation failed it returns
\* False, has spawned no process and leaves frp_clients as it was.
C35_StartFollowsTunnelCreation ==
    [][\A t \in AgentThreads :
         AgentReturns(t, "start") =>
           IF agent'[t].tunnel[1]
           THEN /\ agent'[t].returned = "True"
                /\ agent'[t].server_id \in DOMAIN frp_clients'
                /\ frp_clients'[agent'[t].server_id].process = agent'[t].process
                /\ [pid |-> agent'[t].process, server_id |-> agent'[t].server_id]
                     \in frpc_procs'
           ELSE /\ agent'[t].returned = "False"
                /\ agent'[t].process = None
                /\ frp_clients' = frp_clients
                /\ frpc_procs' = frpc_procs]_vars

\* C37: prepare_rathole_client_config returns None and writes no client
\* config file when create_tunnel_instance reported failure; it returns a
\* config path only when the tunnel instance was created at the manager.
C37_PrepareNeedsTunnel ==
    [][\A t \in AgentThreads :
         AgentReturns(t, "prepare") =>
           /\ ~agent'[t].tunnel[1] =>
                 /\ agent'[t].returned = "None"
                 /\ client_files' = client_files
           /\ agent'[t].returned = "cfg_path" => agent'[t].tunnel[1]]_vars

\* C38: every live client process spawned for a server_id is the process
\* tracked in frp_clients[server_id], whatever the order and interleaving of
\* start_rathole_client and start_rathole_client_with_config; and when
\* stop_rathole_client returns True, no client process of that id is alive.
C38_LiveClientIsTracked ==
    /\ [](\A p \in frpc_procs :
            /\ p.server_id \in DOMAIN frp_clients
            /\ frp_clients[p.server_id].process = p.pid)
    /\ [][\A t \in AgentThreads :
            (AgentReturns(t, "stop") /\ agent'[t].returned = "True") =>
              LiveClients(agent[t].server_id)' = {}]_vars

\* The entries of an allocation index that belong to another id than server_id.
ForeignEntries(index, server_id) == {p \in DOMAIN index : index[p] # server_id}

\* C36: a step of remove_instance(s), in either manager, deletes only
\* allocation-index entries owned by s: every entry that maps a port to a
\* different server_id is still there, unchanged, after the step, also when
\* the remove is a retry of one that failed part-way.
C36_RemoveDeletesOwnEntriesOnly ==
    [][\A t \in Threads :
         (lock = t /\ call[t].op = "remove") =>
           /\ \A p \in ForeignEntries(port_allocations, call[t].server_id) :
                 /\ p \in DOMAIN port_allocations'
                 /\ port_allocations'[p] = port_allocations[p]
           /\ \A p \in ForeignEntries(frps_ports, call[t].server_id) :
                 /\ p \in DOMAIN frps_ports'
                 /\ frps_ports'[p] = frps_ports[p]]_vars

====
